---- MODULE Spec2Model ----
(***************************************************************************)
(* Model of the Unified File Processor (orchestrator/pipeline.py):         *)
(* UnifiedFileProcessor.process_file and the stages it sequences.          *)
(*                                                                         *)
(* A file is named by its place in the extraction tree: <<>> is the file   *)
(* handed to the top-level process_file call, Append(p, j) is the j-th     *)
(* node extracted from the archive p.  Calls are frames of a call stack,   *)
(* because _process_archive calls process_file on every extracted file.    *)
(***************************************************************************)
EXTENDS Integers, Sequences, FiniteSets, TLC

(***************************************************************************)
(* Bounds of the model.                                                    *)
(***************************************************************************)
\* security.archive_limits of the configuration under check
MaxFiles == 2
MaxTotalSize == 3
MaxFileSize == 2
MaxDepth == 1
\* largest declared or on-disk size of one archive entry
MaxSize == 3
\* an entry name has at most this many directory components
MaxNameDepth == 2
\* entries of an archive handed to the pipeline / to the pre-scan alone
MaxMembers == 2
MaxEntries == 3
\* archives nested inside archives
MaxNest == 0
\* the last second of the clock
MaxClock == 1
\* the longest stability_check_duration and stability_check_interval
MaxDuration == 2
MaxInterval == 2
\* how often the watched file is written to
MaxWrites == 2
\* the last second of the clock of a stability check: every write restarts
\* the wait at most once, and a wait lasts at most the duration, one
\* interval and the second a sleep may take longer
Horizon == (MaxWrites + 1) * (MaxDuration + MaxInterval)

\* tokens of a scanned file's path
MaxPath == 3

\* pages a converted PDF may have
MaxPages == 4

\* suffixes of an archive's file name
MaxSuffixes == 2

VARIABLES
    config,     \* the processor's settings, fixed by __init__
    files,      \* path -> what the filesystem holds for it (the input)
    loc,        \* path -> where the file is now
    stack,      \* frames of the active process_file calls, innermost last
    trace,      \* path -> the stages process_file has run on it, in order
    hist,       \* path -> what its call met: kept after the call returns
    qlog,       \* the audit records written by _quarantine_file
    result,     \* path -> the ProcessingResult its process_file call returned
    scan,       \* an entry list and what each pre-scan made of it
    clock,      \* the wall clock, in seconds
    dirs,       \* what the quarantine and destination directories hold
    workers,    \* workers inside _quarantine_file or _organize_file
    stab,       \* a _check_file_stability call and the file it watches
    nest        \* how deep archives inside archives are opened in this run

vars ==
    <<config, files, loc, stack, trace, hist, qlog, result, scan, clock, dirs,
      workers, stab, nest>>

\* the variables of one kind of run, left alone by the runs of another kind
pipeline == <<config, files, loc, stack, trace, hist, qlog, result, nest>>
placed == <<clock, dirs, workers, stab>>

Top == <<>>

(***************************************************************************)
(* Data                                                                    *)
(***************************************************************************)
archive_limits ==
    [max_files |-> MaxFiles, max_total_size |-> MaxTotalSize,
     max_depth |-> MaxDepth, max_file_size |-> MaxFileSize]

\* ProcessingResult(success, final_path, error) and its metadata; final_path
\* is the directory tree the file was placed in
ProcessingResult(success, final_path, error, metadata) ==
    [success |-> success, final_path |-> final_path, error |-> error,
     metadata |-> metadata]

\* SecurityScanResult(is_clean, threat_name)
SecurityScanResult(is_clean, threat_name) ==
    [is_clean |-> is_clean, threat_name |-> threat_name]

NoScan == SecurityScanResult(TRUE, "None")

Markers == {"none", "..", "~"}
Kinds == {"missing", "dir", "file"}
\* what classify_file returns; "unknown" is also its answer when it fails
Categories == {"document", "image", "pdf", "archive", "unknown"}
Formats == {"zip", "tar", "other"}

\* A path as the validators see it: the marker its unresolved string holds,
\* whether resolving or inspecting it raises, what it resolves to, whether
\* the resolved path lies under the source root or the temporary directory,
\* and whether it is a link that leaves the extraction directory it is in.
PathInfo ==
    [marker : Markers, oserror : BOOLEAN, kind : Kinds, inroot : BOOLEAN,
     link : {FALSE}]

\* An extracted file: a regular file in the temporary extraction directory,
\* or a link created by tarfile, whose target lies outside it.
ExtractedInfo(node) ==
    [marker |-> "none", oserror |-> FALSE, kind |-> "file",
     inroot |-> node.kind # "symlink", link |-> node.kind = "symlink"]

(***************************************************************************)
(* Archive entries.  A name is the sequence of its "/"-separated           *)
(* components, so "/a" has an empty first component.                       *)
(***************************************************************************)
DirChain(n) == [i \in 1..n |-> "d"]

Names ==
    {DirChain(n) \o <<"a">> : n \in 0..MaxNameDepth}
        \cup {<<"..", "a">>, <<"", "a">>}

EntryKinds == {"file", "dir", "symlink"}

Entry == [name : Names, size : 0..MaxSize, kind : EntryKinds]

\* ".." in name
HasDotDot(name) == \E i \in 1..Len(name) : name[i] = ".."

\* name.startswith("/")
StartsWithSlash(name) == Len(name) > 0 /\ name[1] = ""

SeqsUpTo(S, n) == UNION {[1..k -> S] : k \in 0..n}

\* the checks with the existence test ahead of the marker test
ValidateFilePathExistsFirst(f) ==
    IF f.oserror THEN "error"
    ELSE IF f.kind = "missing" THEN "missing"
    ELSE IF f.marker = ".." \/ f.marker = "~" THEN "traversal"
    ELSE IF f.kind # "file" THEN "notfile"
    ELSE IF ~f.inroot THEN "outside"
    ELSE "ok"

(***************************************************************************)
(* _validate_file_path: "ok", or the reason of the PathValidationError.    *)
(***************************************************************************)
ValidateFilePath(f) ==
    IF f.marker = ".." \/ f.marker = "~" THEN "traversal"
    ELSE IF f.oserror THEN "error"
    ELSE IF f.kind = "missing" THEN "missing"
    ELSE IF f.kind # "file" THEN "notfile"
    ELSE IF ~f.inroot THEN "outside"
    ELSE "ok"

(***************************************************************************)
(* _scan_file_security.  The scanner's outcomes: its exit code (1 with or  *)
(* without a "<name> FOUND" line in its output), a timeout, or any other   *)
(* exception of the subprocess call.                                       *)
(***************************************************************************)
ScanOutcomes ==
    {"exit0", "exit1_found", "exit1_nomatch", "exit_other", "timeout",
     "exception"}

\* without the scanner binary no subprocess is started
ScanOutcomesFor(cfg) ==
    IF cfg.clamav_available THEN ScanOutcomes ELSE {"unavailable"}

\* the fail-open branch taken whatever the policy is
IndeterminateOpen(cfg, threat_name) == SecurityScanResult(TRUE, "None")

\* a fail-closed result that carries no name
IndeterminateUnnamed(cfg, threat_name) ==
    IF cfg.fail_closed THEN SecurityScanResult(FALSE, "None")
    ELSE SecurityScanResult(TRUE, "None")

Indeterminate(cfg, threat_name) ==
    IF cfg.fail_closed THEN SecurityScanResult(FALSE, threat_name)
    ELSE SecurityScanResult(TRUE, "None")

ScanFileSecurity(cfg, outcome) ==
    IF ~cfg.clamav_available THEN Indeterminate(cfg, "AVUnavailable")
    ELSE IF outcome = "exit0" THEN SecurityScanResult(TRUE, "None")
    ELSE IF outcome = "exit1_found" THEN SecurityScanResult(FALSE, "Found")
    ELSE IF outcome = "exit1_nomatch"
        THEN SecurityScanResult(FALSE, "Unknown threat")
    ELSE IF outcome = "exit_other" THEN Indeterminate(cfg, "ScanError")
    ELSE IF outcome = "timeout" THEN Indeterminate(cfg, "ScanTimeout")
    ELSE Indeterminate(cfg, "ScanException")

\* the condition without its fail-closed disjunct
SecurityScanEnabled(cfg) == cfg.enable_security_scan

\* the condition read as (a or not b) and c
SecurityScanRunsGrouped(cfg) ==
    (cfg.enable_security_scan \/ ~cfg.clamav_available) /\ cfg.fail_closed

\* the condition of step 3 of process_file
SecurityScanRuns(cfg) ==
    cfg.enable_security_scan \/ (~cfg.clamav_available /\ cfg.fail_closed)

(***************************************************************************)
(* The pre-scans of _extract_zip_with_protection and                       *)
(* _extract_tar_with_protection: one iteration of the loop over the entry  *)
(* list, the loop, and the extraction that follows it.                     *)
(***************************************************************************)
ScanStart == [file_count |-> 0, total_size |-> 0, raised |-> "none"]

Raise(st, why) == [st EXCEPT !.raised = why]

\* the pre-scan with every limit compared by >=
ZipCheckEntryAtLimit(st, e) ==
    LET count == st.file_count + 1
        total == st.total_size + e.size
    IN  IF count >= archive_limits.max_files
            THEN Raise([st EXCEPT !.file_count = count], "count")
        ELSE IF HasDotDot(e.name) \/ StartsWithSlash(e.name)
            THEN Raise([st EXCEPT !.file_count = count], "traversal")
        ELSE IF total >= archive_limits.max_total_size
            THEN Raise([st EXCEPT !.file_count = count,
                                  !.total_size = total], "total")
        ELSE IF e.size >= archive_limits.max_file_size
            THEN Raise([st EXCEPT !.file_count = count,
                                  !.total_size = total], "size")
        ELSE [st EXCEPT !.file_count = count, !.total_size = total]

ZipCheckEntry(st, e) ==
    LET count == st.file_count + 1
        total == st.total_size + e.size
    IN  IF count > archive_limits.max_files
            THEN Raise([st EXCEPT !.file_count = count], "count")
        ELSE IF HasDotDot(e.name) \/ StartsWithSlash(e.name)
            THEN Raise([st EXCEPT !.file_count = count], "traversal")
        ELSE IF total > archive_limits.max_total_size
            THEN Raise([st EXCEPT !.file_count = count,
                                  !.total_size = total], "total")
        ELSE IF e.size > archive_limits.max_file_size
            THEN Raise([st EXCEPT !.file_count = count,
                                  !.total_size = total], "size")
        ELSE [st EXCEPT !.file_count = count, !.total_size = total]

TarCheckEntry(st, e) ==
    LET count == st.file_count + 1
        total == st.total_size + e.size
    IN  IF count > archive_limits.max_files
            THEN Raise([st EXCEPT !.file_count = count], "count")
        ELSE IF HasDotDot(e.name) \/ StartsWithSlash(e.name)
            THEN Raise([st EXCEPT !.file_count = count], "traversal")
        ELSE IF e.kind # "file"
            THEN [st EXCEPT !.file_count = count]
        ELSE IF total > archive_limits.max_total_size
            THEN Raise([st EXCEPT !.file_count = count,
                                  !.total_size = total], "total")
        ELSE IF e.size > archive_limits.max_file_size
            THEN Raise([st EXCEPT !.file_count = count,
                                  !.total_size = total], "size")
        ELSE [st EXCEPT !.file_count = count, !.total_size = total]

CheckEntry(format, st, e) ==
    IF format = "zip" THEN ZipCheckEntry(st, e) ELSE TarCheckEntry(st, e)

\* the loop: it stops at the first entry that raises
RECURSIVE CheckEntries(_, _, _, _)
CheckEntries(format, st, entries, i) ==
    IF i > Len(entries) \/ st.raised # "none" THEN st
    ELSE CheckEntries(format, CheckEntry(format, st, entries[i]), entries, i + 1)

\* the whole function: the pre-scan, then extractall, which writes every
\* entry; "written" is what the extraction directory holds afterwards
ExtractWithProtection(format, entries) ==
    LET st == CheckEntries(format, ScanStart, entries, 1)
    IN  [raised |-> st.raised,
         written |-> IF st.raised = "none" THEN entries ELSE <<>>]

ExtractZipWithProtection(entries) == ExtractWithProtection("zip", entries)

ExtractTarWithProtection(entries) == ExtractWithProtection("tar", entries)

(***************************************************************************)
(* What extractall leaves on disk.  zipfile writes a symbolic-link entry   *)
(* as a regular file of the declared size; tarfile creates the link, whose *)
(* target lies outside the extraction directory and has size linksize.     *)
(***************************************************************************)
ExtractedNode(format, e, linksize) ==
    IF e.kind = "symlink"
        THEN IF format = "zip" THEN [e EXCEPT !.kind = "file"]
             ELSE [e EXCEPT !.size = linksize]
    ELSE e

ExtractedTree(format, written, linksize) ==
    [j \in 1..Len(written) |-> ExtractedNode(format, written[j], linksize)]

\* the depth of the deepest directory a node makes os.walk visit
NodeDepth(node) ==
    IF node.kind = "dir" THEN Len(node.name) ELSE Len(node.name) - 1

(***************************************************************************)
(* The walk of _process_archive over the extracted tree (os.walk visits    *)
(* every directory and lists its files; the fold below takes the nodes in  *)
(* archive order, which gives the same verdict and the same counters).     *)
(***************************************************************************)
WalkStart == [file_count |-> 0, total_extracted_size |-> 0, raised |-> "none"]

\* the walk with the depth compared by >=
WalkNodeAtLimit(st, node) ==
    LET count == st.file_count + 1
        total == st.total_extracted_size + node.size
    IN  IF NodeDepth(node) >= archive_limits.max_depth
            THEN Raise(st, "depth")
        ELSE IF node.kind = "dir" THEN st
        ELSE IF count > archive_limits.max_files
            THEN Raise([st EXCEPT !.file_count = count], "count")
        ELSE IF node.size > archive_limits.max_file_size
            THEN Raise([st EXCEPT !.file_count = count,
                                  !.total_extracted_size = total], "size")
        ELSE IF total > archive_limits.max_total_size
            THEN Raise([st EXCEPT !.file_count = count,
                                  !.total_extracted_size = total], "total")
        ELSE [st EXCEPT !.file_count = count, !.total_extracted_size = total]

WalkNode(st, node) ==
    LET count == st.file_count + 1
        total == st.total_extracted_size + node.size
    IN  IF NodeDepth(node) > archive_limits.max_depth
            THEN Raise(st, "depth")
        ELSE IF node.kind = "dir" THEN st
        ELSE IF count > archive_limits.max_files
            THEN Raise([st EXCEPT !.file_count = count], "count")
        ELSE IF node.size > archive_limits.max_file_size
            THEN Raise([st EXCEPT !.file_count = count,
                                  !.total_extracted_size = total], "size")
        ELSE IF total > archive_limits.max_total_size
            THEN Raise([st EXCEPT !.file_count = count,
                                  !.total_extracted_size = total], "total")
        ELSE [st EXCEPT !.file_count = count, !.total_extracted_size = total]

RECURSIVE WalkExtracted(_, _, _)
WalkExtracted(st, tree, i) ==
    IF i > Len(tree) \/ st.raised # "none" THEN st
    ELSE WalkExtracted(WalkNode(st, tree[i]), tree, i + 1)

\* the check without resolving the path
ValidateExtractedFilePathUnresolved(f) == "ok"

\* _validate_extracted_file_path: the resolved path must lie under the
\* extraction root, and resolving follows a link to its target
ValidateExtractedFilePath(f) ==
    IF f.oserror THEN "error" ELSE IF f.link THEN "outside" ELSE "ok"

(***************************************************************************)
(* The call stack.                                                         *)
(***************************************************************************)
NoMetadata ==
    [present |-> FALSE, extracted_files |-> <<>>,
     total_extracted_size |-> 0, file_count |-> 0]

\* the frame of a process_file call that has just been entered
Frame(p) ==
    [path |-> p, pc |-> "validate", reason |-> "none", scan_result |-> NoScan,
     category |-> "none", ocr_metadata |-> FALSE,
     format |-> "none", prescan |-> "none",
     entries |-> <<>>, tree |-> <<>>, walk |-> "none", members |-> <<>>,
     idx |-> 0, extracted_files |-> <<>>,
     total_extracted_size |-> 0, file_count |-> 0]

Depth == Len(stack)
Running == Depth > 0
Cur == stack[Depth]

SetCur(f) == [stack EXCEPT ![Depth] = f]

Did(p, stage) == [trace EXCEPT ![p] = Append(@, stage)]

NoHist ==
    [reason |-> "none", outcome |-> "none", scan_result |-> NoScan,
     threat |-> "none", bomb |-> "none"]

IsChild(q, p) == Len(q) = Len(p) + 1 /\ SubSeq(q, 1, Len(p)) = p

\* a member loop that ends with the first member that did not succeed
ReturnToStopping(caller, p, res) ==
    [caller EXCEPT
        !.pc = "members",
        !.idx = IF res.success THEN @ + 1 ELSE Len(caller.members) + 1,
        !.extracted_files =
            IF res.success
                THEN Append(@, [path |-> p, final_path |-> res.final_path])
                ELSE @]

\* the caller keeping the final paths of organized members only
ReturnToOrganized(caller, p, res) ==
    [caller EXCEPT
        !.pc = "members",
        !.idx = @ + 1,
        !.extracted_files =
            IF res.success /\ res.final_path = "dest"
                THEN Append(@, [path |-> p, final_path |-> res.final_path])
                ELSE @]

\* process_file returns res: the frame is popped, and a caller, which is the
\* member loop of _process_archive, keeps the final path of a success and
\* goes on to the next member
ReturnTo(caller, p, res) ==
    [caller EXCEPT
        !.pc = "members",
        !.idx = @ + 1,
        !.extracted_files =
            IF res.success
                THEN Append(@, [path |-> p, final_path |-> res.final_path])
                ELSE @]

Return(res) ==
    /\ result' = (Cur.path :> res) @@ result
    /\ stack' =
            IF Depth = 1 THEN <<>>
            ELSE [SubSeq(stack, 1, Depth - 1) EXCEPT
                    ![Depth - 1] = ReturnTo(@, Cur.path, res)]

\* leaving the "with tempfile.TemporaryDirectory()" block of the archive p
\* removes what is still in its extraction directory
CleanedUp(l, p) ==
    [q \in DOMAIN l |->
        IF IsChild(q, p) /\ l[q] = "orig" THEN "removed" ELSE l[q]]

(***************************************************************************)
(* process_file, one action per stage.                                     *)
(***************************************************************************)
PathValidationFailed == SecurityScanResult(FALSE, "PathValidationError")

\* step 1 with the PathValidationError ignored
AfterValidationIgnored(f, v) == [f EXCEPT !.pc = "stability", !.reason = v]

\* Step 1: a PathValidationError goes to _quarantine_file, anything else on
AfterValidation(f, v) ==
    IF v = "ok" THEN [f EXCEPT !.pc = "stability", !.reason = v]
    ELSE [f EXCEPT !.pc = "quarantine", !.reason = v,
                   !.scan_result = PathValidationFailed]

ValidatePath ==
    /\ Running /\ Cur.pc = "validate"
    /\ LET v == ValidateFilePath(files[Cur.path])
       IN  /\ stack' = SetCur(AfterValidation(Cur, v))
           /\ hist' = [hist EXCEPT ![Cur.path].reason = v]
    /\ trace' = Did(Cur.path, "validate")
    /\ UNCHANGED <<config, files, loc, qlog, result, scan, nest, placed>>

\* what _check_file_stability meets: the file stays unchanged for the whole
\* window, it disappears, or a stat call raises
StabilityOutcomes == {"stable", "disappeared", "error"}

NotStable ==
    ProcessingResult(FALSE, "none", "File not stable for processing",
                     NoMetadata)

\* Step 2: _check_file_stability returns True or False
CheckFileStability ==
    /\ Running /\ Cur.pc = "stability"
    /\ trace' = Did(Cur.path, "stability")
    /\ \E outcome \in StabilityOutcomes :
          IF outcome = "stable"
              THEN /\ stack' = SetCur([Cur EXCEPT !.pc = "scan"])
                   /\ UNCHANGED <<loc, result>>
              ELSE /\ loc' = IF outcome = "disappeared"
                                THEN [loc EXCEPT ![Cur.path] = "missing"]
                                ELSE loc
                   /\ Return(NotStable)
    /\ UNCHANGED <<config, files, hist, qlog, scan, nest, placed>>

\* step 3 with the result ignored
AfterScanIgnored(f, r) == [f EXCEPT !.scan_result = r, !.pc = "classify"]

\* a result that is not clean goes to _quarantine_file
AfterScan(f, r) ==
    [f EXCEPT !.scan_result = r,
              !.pc = IF r.is_clean THEN "classify" ELSE "quarantine"]

\* Step 3: the security scan, when the configuration asks for it
SecurityScan ==
    /\ Running /\ Cur.pc = "scan"
    /\ IF SecurityScanRuns(config)
          THEN \E outcome \in ScanOutcomesFor(config) :
                 LET r == ScanFileSecurity(config, outcome)
                 IN  /\ stack' = SetCur(AfterScan(Cur, r))
                     /\ hist' = [hist EXCEPT ![Cur.path].outcome = outcome,
                                             ![Cur.path].scan_result = r]
                     /\ trace' = Did(Cur.path, "scan")
          ELSE /\ stack' = SetCur([Cur EXCEPT !.pc = "classify"])
               /\ UNCHANGED <<trace, hist>>
    /\ UNCHANGED <<config, files, loc, qlog, result, scan, nest, placed>>

\* step 6 with the plain documents sent to the metadata extraction as well
ClassifyFileOcrDocuments ==
    /\ Running /\ Cur.pc = "classify"
    /\ \E category \in Categories :
          /\ category = "archive" => Len(Cur.path) <= nest
          /\ stack' = SetCur([Cur EXCEPT
                 !.category = category,
                 !.pc = IF category = "archive"
                            /\ config.enable_archive_extraction
                        THEN "archive"
                        ELSE IF config.enable_ocr
                                /\ category \in {"image", "pdf", "document"}
                        THEN "ocr" ELSE "organize"])
    /\ trace' = Did(Cur.path, "classify")
    /\ UNCHANGED <<config, files, loc, hist, qlog, result, scan, nest, placed>>

\* Step 4: the classifier names a category; step 5 sends an archive to
\* _process_archive when extraction is enabled
ClassifyFile ==
    /\ Running /\ Cur.pc = "classify"
    /\ \E category \in Categories :
          /\ category = "archive" => Len(Cur.path) <= nest
          /\ stack' = SetCur([Cur EXCEPT
                 !.category = category,
                 !.pc = IF category = "archive"
                            /\ config.enable_archive_extraction
                        THEN "archive"
                        ELSE IF config.enable_ocr
                                /\ category \in {"image", "pdf"}
                        THEN "ocr" ELSE "organize"])
    /\ trace' = Did(Cur.path, "classify")
    /\ UNCHANGED <<config, files, loc, hist, qlog, result, scan, nest, placed>>

\* what _extract_ocr_metadata meets: text with metadata in it, no text or no
\* OCR engine, or an exception, which it catches
OcrOutcomes == {"metadata", "nothing", "exception"}

\* Step 6: _extract_ocr_metadata returns the metadata or None
ExtractOcrMetadata ==
    /\ Running /\ Cur.pc = "ocr"
    /\ \E outcome \in OcrOutcomes :
          stack' = SetCur([Cur EXCEPT !.ocr_metadata = outcome = "metadata",
                                      !.pc = "organize"])
    /\ trace' = Did(Cur.path, "ocr")
    /\ UNCHANGED <<config, files, loc, hist, qlog, result, scan, nest, placed>>

\* the moves of _organize_file: the first move, the fallback move after a
\* failure, or both fail and the exception propagates
OrganizeOutcomes == {"moved", "fallback", "failed"}

CanOrganize(p, outcome) == outcome = "failed" \/ loc[p] = "orig"

\* the handler with the message dropped
ProcessingFailedSilently ==
    ProcessingResult(FALSE, "none", "", NoMetadata)

\* the last handler of process_file: the result carries str(e)
ProcessingFailed ==
    ProcessingResult(FALSE, "none", "organize failed", NoMetadata)

\* Step 7: _organize_file; its exception is caught by process_file
OrganizeFile ==
    /\ Running /\ Cur.pc = "organize"
    /\ trace' = Did(Cur.path, "organize")
    /\ \E outcome \in OrganizeOutcomes :
          /\ CanOrganize(Cur.path, outcome)
          /\ IF outcome = "failed"
                THEN /\ Return(ProcessingFailed)
                     /\ UNCHANGED loc
                ELSE /\ loc' = [loc EXCEPT ![Cur.path] = "dest"]
                     /\ Return(ProcessingResult(TRUE, "dest", "", NoMetadata))
    /\ UNCHANGED <<config, files, hist, qlog, scan, nest, placed>>

QuarantineFailed ==
    ProcessingResult(FALSE, "none", "Quarantine failed", NoMetadata)

\* _quarantine_file: the move, then the audit record; either may raise
QuarantineFile ==
    /\ Running /\ Cur.pc = "quarantine"
    /\ trace' = Did(Cur.path, "quarantine")
    /\ hist' = [hist EXCEPT ![Cur.path].threat = Cur.scan_result.threat_name]
    /\ \E move_ok \in BOOLEAN, log_ok \in BOOLEAN :
          /\ move_ok => loc[Cur.path] = "orig"
          /\ ~move_ok => ~log_ok
          /\ loc' = IF move_ok THEN [loc EXCEPT ![Cur.path] = "quarantine"]
                    ELSE loc
          /\ qlog' = IF log_ok
                        THEN qlog \cup {[path |-> Cur.path,
                               threat_name |-> Cur.scan_result.threat_name]}
                        ELSE qlog
          /\ Return(IF log_ok
                       THEN ProcessingResult(TRUE, "quarantine", "", NoMetadata)
                       ELSE QuarantineFailed)
    /\ UNCHANGED <<config, files, scan, nest, placed>>

(***************************************************************************)
(* _process_archive.                                                       *)
(***************************************************************************)
\* the archives handed to the pipeline
PipelineArchives == SeqsUpTo(Entry, MaxMembers)

\* the archives of a run that follows archives inside archives: regular
\* files at the top of the archive, up to two of size 1, or one of the
\* largest size in an archive found inside another
NestedEntry(name, size) == [name |-> <<name>>, size |-> size, kind |-> "file"]

NestedArchives ==
    {<<>>, <<NestedEntry("a", 1)>>,
     <<NestedEntry("a", 1), NestedEntry("b", 1)>>}

InnerArchives ==
    {<<>>, <<NestedEntry("a", 1)>>, <<NestedEntry("a", MaxSize)>>,
     <<NestedEntry("a", 1), NestedEntry("b", 1)>>}

\* the archives of a chain of archives, each holding the next: one regular
\* file at the top, or in a directory at the depth limit, or a directory
\* one level too deep
ChainArchives ==
    {<<NestedEntry("a", 1)>>,
     <<[name |-> <<"d">>, size |-> 0, kind |-> "dir"],
       [name |-> <<"d", "a">>, size |-> 1, kind |-> "file"]>>,
     <<[name |-> <<"d">>, size |-> 0, kind |-> "dir"],
       [name |-> <<"d", "e">>, size |-> 0, kind |-> "dir"]>>}

ArchivesAt(n, p) ==
    IF n <= MaxNest THEN PipelineArchives
    ELSE IF n > MaxNest + 1 THEN ChainArchives
    ELSE IF p = Top THEN NestedArchives
    ELSE InnerArchives

\* the places in the tree of its files, in walk order
RECURSIVE Members(_, _)
Members(tree, j) ==
    IF j > Len(tree) THEN <<>>
    ELSE (IF tree[j].kind = "dir" THEN <<>> ELSE <<j>>) \o Members(tree, j + 1)

\* the sizes a link target can have: they matter for links tarfile creates
LinkSizes(format, entries) ==
    IF format = "tar" /\ \E i \in 1..Len(entries) : entries[i].kind = "symlink"
        THEN 0..MaxSize ELSE {0}

ArchiveBomb == SecurityScanResult(FALSE, "ArchiveBomb")

\* the ArchiveBombError handled under the antivirus policy
OnArchiveBombByPolicy(f) ==
    IF config.fail_closed
        THEN [f EXCEPT !.scan_result = SecurityScanResult(FALSE, "ArchiveBomb"),
                       !.pc = "quarantine"]
        ELSE [f EXCEPT !.pc = "organize"]

\* the ArchiveBombError handled like an archive that passed
OnArchiveBombOrganize(f) == [f EXCEPT !.pc = "organize"]

\* both handlers of ArchiveBombError quarantine the archive itself
OnArchiveBomb(f) == [f EXCEPT !.scan_result = ArchiveBomb, !.pc = "quarantine"]

\* the format test on the file name, the pre-scan and extractall; an archive
\* that cannot be read raises another exception, caught at the end of
\* _process_archive
ExtractArchive ==
    /\ Running /\ Cur.pc = "archive"
    /\ \/ /\ Return(ProcessingResult(FALSE, "none",
                     "Unsupported archive format", NoMetadata))
          /\ trace' = Did(Cur.path, "extract")
          /\ UNCHANGED <<files, loc, hist>>
       \/ /\ Return(ProcessingResult(FALSE, "none",
                     "Archive processing failed", NoMetadata))
          /\ trace' = Did(Cur.path, "extract")
          /\ UNCHANGED <<files, loc, hist>>
       \/ \E format \in {"zip", "tar"}, entries \in ArchivesAt(nest, Cur.path) :
            \E linksize \in LinkSizes(format, entries) :
              LET p == Cur.path
                  x == ExtractWithProtection(format, entries)
                  tree == ExtractedTree(format, x.written, linksize)
                  new == {j \in 1..Len(tree) : tree[j].kind # "dir"}
                  born(v) == [q \in {Append(p, j) : j \in new} |-> v]
              IN  /\ stack' = SetCur(
                         IF x.raised # "none"
                           THEN OnArchiveBomb([Cur EXCEPT
                                   !.format = format, !.entries = entries,
                                   !.prescan = x.raised])
                           ELSE [Cur EXCEPT
                                   !.format = format, !.entries = entries,
                                   !.prescan = "ok",
                                   !.tree = tree, !.pc = "walk"])
                  /\ files' = [q \in {Append(p, j) : j \in new} |->
                                 ExtractedInfo(tree[q[Len(q)]])] @@ files
                  /\ loc' = born("orig") @@ loc
                  /\ trace' = born(<<>>) @@ Did(p, "extract")
                  /\ hist' = born(NoHist) @@
                       [hist EXCEPT ![p].bomb =
                           IF x.raised # "none" THEN "prescan" ELSE @]
                  /\ UNCHANGED result
    /\ UNCHANGED <<config, qlog, scan, nest, placed>>

\* the walk over the extracted tree; its ArchiveBombError leaves the
\* temporary directory and is caught at the end of _process_archive
WalkTree ==
    /\ Running /\ Cur.pc = "walk"
    /\ LET w == WalkExtracted(WalkStart, Cur.tree, 1)
       IN  IF w.raised # "none"
             THEN /\ stack' = SetCur(OnArchiveBomb([Cur EXCEPT
                                                     !.walk = w.raised]))
                  /\ loc' = CleanedUp(loc, Cur.path)
                  /\ hist' = [hist EXCEPT ![Cur.path].bomb = "walk"]
             ELSE /\ stack' = SetCur([Cur EXCEPT
                        !.walk = "ok", !.file_count = w.file_count,
                        !.total_extracted_size = w.total_extracted_size,
                        !.members = Members(Cur.tree, 1), !.idx = 1,
                        !.pc = "members"])
                  /\ UNCHANGED <<loc, hist>>
    /\ trace' = Did(Cur.path, "walk")
    /\ UNCHANGED <<config, files, qlog, result, scan, nest, placed>>

\* the member loop: a file that fails _validate_extracted_file_path is
\* logged and skipped, any other is handed to process_file; the loop reads
\* the list the walk built, not the tree
ProcessMember ==
    /\ Running /\ Cur.pc = "members" /\ Cur.idx <= Len(Cur.members)
    /\ LET q == Append(Cur.path, Cur.members[Cur.idx])
       IN  IF ValidateExtractedFilePath(files[q]) # "ok"
             THEN stack' = SetCur([Cur EXCEPT !.idx = @ + 1, !.tree = <<>>,
                                              !.entries = <<>>])
             ELSE stack' = Append(SetCur([Cur EXCEPT !.pc = "wait",
                                                     !.tree = <<>>,
                                                     !.entries = <<>>]),
                                  Frame(q))
    /\ UNCHANGED <<config, files, loc, trace, hist, qlog, result, scan, nest, placed>>

\* the archive organized while members are still waiting
FinishArchiveEarly ==
    /\ Running /\ Cur.pc = "members"
    /\ trace' = Did(Cur.path, "organize")
    /\ \E outcome \in OrganizeOutcomes :
          /\ CanOrganize(Cur.path, outcome)
          /\ loc' = CleanedUp(
                 IF outcome = "failed" THEN loc
                 ELSE [loc EXCEPT ![Cur.path] = "dest"], Cur.path)
          /\ Return(IF outcome = "failed"
                      THEN ProcessingResult(FALSE, "none",
                               "Archive processing failed", NoMetadata)
                      ELSE ProcessingResult(TRUE, "dest", "",
                               [present |-> TRUE,
                                extracted_files |-> Cur.extracted_files,
                                total_extracted_size |->
                                    Cur.total_extracted_size,
                                file_count |-> Cur.file_count]))
    /\ UNCHANGED <<config, files, hist, qlog, scan, nest, placed>>

\* after the loop the archive itself is organized and the result carries
\* the metadata; a failing _organize_file is caught by _process_archive
FinishArchive ==
    /\ Running /\ Cur.pc = "members" /\ Cur.idx > Len(Cur.members)
    /\ trace' = Did(Cur.path, "organize")
    /\ \E outcome \in OrganizeOutcomes :
          /\ CanOrganize(Cur.path, outcome)
          /\ loc' = CleanedUp(
                 IF outcome = "failed" THEN loc
                 ELSE [loc EXCEPT ![Cur.path] = "dest"], Cur.path)
          /\ Return(IF outcome = "failed"
                      THEN ProcessingResult(FALSE, "none",
                               "Archive processing failed", NoMetadata)
                      ELSE ProcessingResult(TRUE, "dest", "",
                               [present |-> TRUE,
                                extracted_files |-> Cur.extracted_files,
                                total_extracted_size |->
                                    Cur.total_extracted_size,
                                file_count |-> Cur.file_count]))
    /\ UNCHANGED <<config, files, hist, qlog, scan, nest, placed>>

(***************************************************************************)
(* The pipeline: one process_file call on one path.                        *)
(***************************************************************************)
\* no worker is placing a file; old is the set of the paths the destination
\* tree held at the start
NoDirs == [quarantine |-> <<>>, logs |-> <<>>, dest |-> <<>>, old |-> {}]

\* no stability check is running
NoStab == [pc |-> "idle"]

NothingPlaced ==
    clock = 0 /\ dirs = NoDirs /\ workers = <<>> /\ stab = NoStab

Configs ==
    [enable_security_scan : BOOLEAN, clamav_available : BOOLEAN,
     fail_closed : BOOLEAN, enable_archive_extraction : BOOLEAN,
     enable_ocr : BOOLEAN]

NotRun == [done |-> FALSE, raised |-> "none", written |-> <<>>]

ScanIdle == [entries |-> <<>>, zip |-> NotRun, tar |-> NotRun]

Init ==
    /\ config \in Configs
    /\ \E f \in PathInfo :
          /\ files = (Top :> f)
          /\ loc = (Top :> IF f.kind = "missing" THEN "missing" ELSE "orig")
    /\ stack = <<Frame(Top)>>
    /\ trace = (Top :> <<>>)
    /\ hist = (Top :> NoHist)
    /\ qlog = {}
    /\ result = <<>>
    /\ scan = ScanIdle
    /\ nest = MaxNest
    /\ NothingPlaced

\* one call on a regular file under the source root, with every stage
\* enabled, no scanner installed and the fail-open policy, in which an archive found in an archive is opened too
InitNested ==
    /\ config = [enable_security_scan |-> TRUE, clamav_available |-> FALSE,
                 fail_closed |-> FALSE, enable_archive_extraction |-> TRUE,
                 enable_ocr |-> TRUE]
    /\ files = (Top :> [marker |-> "none", oserror |-> FALSE, kind |-> "file",
                        inroot |-> TRUE, link |-> FALSE])
    /\ loc = (Top :> "orig")
    /\ stack = <<Frame(Top)>>
    /\ trace = (Top :> <<>>)
    /\ hist = (Top :> NoHist)
    /\ qlog = {}
    /\ result = <<>>
    /\ scan = ScanIdle
    /\ nest = MaxNest + 1
    /\ NothingPlaced

\* the same call on the outermost archive of a chain one archive longer
\* than max_depth + 1
InitChain ==
    /\ config = [enable_security_scan |-> TRUE, clamav_available |-> FALSE,
                 fail_closed |-> FALSE, enable_archive_extraction |-> TRUE,
                 enable_ocr |-> TRUE]
    /\ files = (Top :> [marker |-> "none", oserror |-> FALSE, kind |-> "file",
                        inroot |-> TRUE, link |-> FALSE])
    /\ loc = (Top :> "orig")
    /\ stack = <<Frame(Top)>>
    /\ trace = (Top :> <<>>)
    /\ hist = (Top :> NoHist)
    /\ qlog = {}
    /\ result = <<>>
    /\ scan = ScanIdle
    /\ nest = MaxDepth + 1
    /\ NothingPlaced

Next ==
    \/ ValidatePath
    \/ CheckFileStability
    \/ SecurityScan
    \/ ClassifyFile
    \/ ExtractOcrMetadata
    \/ OrganizeFile
    \/ QuarantineFile
    \/ ExtractArchive
    \/ WalkTree
    \/ ProcessMember
    \/ FinishArchive

Spec == Init /\ [][Next]_vars

SpecNested == InitNested /\ [][Next]_vars

SpecChain == InitChain /\ [][Next]_vars

(***************************************************************************)
(* The two extraction functions on their own: an entry list is drawn and   *)
(* _extract_zip_with_protection and _extract_tar_with_protection are each  *)
(* applied to it.                                                          *)
(***************************************************************************)
\* the pre-scan reads no directory depth: names of one component, and the
\* two names it rejects
ScanNames == {n \in Names : Len(n) = 1 \/ HasDotDot(n) \/ StartsWithSlash(n)}

ScanEntry == {e \in Entry : e.name \in ScanNames}

Ran(x) == [done |-> TRUE, raised |-> x.raised, written |-> x.written]

RunZipExtract ==
    /\ ~Running /\ ~scan.zip.done
    /\ scan' = [scan EXCEPT !.zip = Ran(ExtractZipWithProtection(scan.entries))]
    /\ UNCHANGED <<pipeline, placed>>

RunTarExtract ==
    /\ ~Running /\ scan.zip.done /\ ~scan.tar.done
    /\ scan' = [scan EXCEPT !.tar = Ran(ExtractTarWithProtection(scan.entries))]
    /\ UNCHANGED <<pipeline, placed>>

DefaultConfig ==
    [enable_security_scan |-> FALSE, clamav_available |-> FALSE,
     fail_closed |-> TRUE, enable_archive_extraction |-> TRUE,
     enable_ocr |-> TRUE]

\* no process_file call is running
PipelineIdle ==
    /\ config = DefaultConfig
    /\ files = <<>>
    /\ loc = <<>>
    /\ stack = <<>>
    /\ trace = <<>>
    /\ hist = <<>>
    /\ qlog = {}
    /\ result = <<>>
    /\ nest = MaxNest

InitPrescan ==
    /\ PipelineIdle
    /\ NothingPlaced
    /\ \E entries \in SeqsUpTo(ScanEntry, MaxEntries) :
          scan = [entries |-> entries, zip |-> NotRun, tar |-> NotRun]

NextPrescan == RunZipExtract \/ RunTarExtract

SpecPrescan == InitPrescan /\ [][NextPrescan]_vars

(***************************************************************************)
(* _quarantine_file, step by step, run by two workers at once on two       *)
(* different files: the path is built from the clock's second and the      *)
(* file's base name, the file is moved onto that path, and the audit       *)
(* record is written next to it.  A directory is a function from the names *)
(* in it to what each holds; a move or a write onto a name that is taken   *)
(* replaces what was there.                                                *)
(***************************************************************************)
Workers == {1, 2}

BaseNames == {"a", "b"}

Threats == {"Found", "ArchiveBomb"}

\* the file of worker w: two workers never hold the same file
FileOf(w, base) == [dir |-> w, base |-> base]

\* quarantine_dir / f"{now:%Y%m%d_%H%M%S}_{filename}"
QuarantinePath(now, f) == <<now, f.base>>

\* d with name n holding x
Put(d, n, x) == [m \in DOMAIN d \cup {n} |-> IF m = n THEN x ELSE d[m]]

SetWorker(w, r) == [workers EXCEPT ![w] = r]

Tick ==
    /\ clock < MaxClock
    /\ clock' = clock + 1
    /\ UNCHANGED <<pipeline, scan, stab, dirs, workers>>

QuarantineName(w) ==
    /\ workers[w].pc = "name"
    /\ workers' = SetWorker(w, [workers[w] EXCEPT
            !.path = QuarantinePath(clock, workers[w].file), !.pc = "move"])
    /\ UNCHANGED <<pipeline, scan, stab, clock, dirs>>

QuarantineMove(w) ==
    /\ workers[w].pc = "move"
    /\ \E move_ok \in BOOLEAN :
          IF move_ok
            THEN /\ dirs' = [dirs EXCEPT !.quarantine =
                                Put(@, workers[w].path, workers[w].file)]
                 /\ workers' = SetWorker(w, [workers[w] EXCEPT
                                    !.moved = TRUE, !.pc = "log"])
            ELSE /\ workers' = SetWorker(w, [workers[w] EXCEPT
                                    !.result = QuarantineFailed, !.pc = "done"])
                 /\ UNCHANGED dirs
    /\ UNCHANGED <<pipeline, scan, stab, clock>>

QuarantineLog(w) ==
    /\ workers[w].pc = "log"
    /\ \E log_ok \in BOOLEAN :
          IF log_ok
            THEN /\ dirs' = [dirs EXCEPT !.logs =
                        Put(@, workers[w].path,
                            [original_path |-> workers[w].file,
                             threat_name |-> workers[w].threat])]
                 /\ workers' = SetWorker(w, [workers[w] EXCEPT
                        !.result = ProcessingResult(TRUE, "quarantine", "",
                                                    NoMetadata),
                        !.pc = "done"])
            ELSE /\ workers' = SetWorker(w, [workers[w] EXCEPT
                                    !.result = QuarantineFailed, !.pc = "done"])
                 /\ UNCHANGED dirs
    /\ UNCHANGED <<pipeline, scan, stab, clock>>

NoResult == ProcessingResult(FALSE, "none", "", NoMetadata)

InitQuarantine ==
    /\ PipelineIdle
    /\ scan = ScanIdle
    /\ clock = 0
    /\ dirs = NoDirs
    /\ stab = NoStab
    /\ \E bases \in [Workers -> BaseNames], threats \in [Workers -> Threats] :
          workers = [w \in Workers |->
                        [pc |-> "name", file |-> FileOf(w, bases[w]),
                         threat |-> threats[w], path |-> <<>>,
                         moved |-> FALSE, result |-> NoResult]]

NextQuarantine ==
    \/ Tick
    \/ \E w \in Workers : QuarantineName(w)
    \/ \E w \in Workers : QuarantineMove(w)
    \/ \E w \in Workers : QuarantineLog(w)

SpecQuarantine == InitQuarantine /\ [][NextQuarantine]_vars

(***************************************************************************)
(* _organize_file, step by step, run by two workers on two different       *)
(* files: the destination directory is built and created, the conflict     *)
(* loop looks for a free name, the file is moved, and a failure on the way *)
(* leads to the flat fallback placement.  A file name is the sequence of   *)
(* its characters, so that the names the loop builds can meet the names    *)
(* files already have.                                                     *)
(***************************************************************************)
FileNames == {<<"a">>, <<"a", ".", "t">>, <<"a", "_", "1", ".", "t">>}

OrganizedCategories == {"document", "pdf"}

\* config["categories"]: the configured category -> its "destination"
ConfigCategories == [documents |-> "documents", pdf |-> "pdf"]

category_mapping ==
    [document |-> "documents", image |-> "images", archive |-> "archives"]

MappedCategory(category) ==
    IF category \in DOMAIN category_mapping THEN category_mapping[category]
    ELSE category

\* categories.get(key, {}).get("destination", category)
Destination(key, category) ==
    IF key \in DOMAIN ConfigCategories THEN ConfigCategories[key]
    ELSE category

\* the lookup without the mapping of the classifier's names
BaseDestUnmapped(category) == Destination(category, category)

BaseDest(category) == Destination(MappedCategory(category), category)

\* dest_parts: the base directory, then the segments the OCR metadata gives
FinalDestDir(category, ocr_metadata) ==
    IF ocr_metadata THEN <<BaseDest(category), "context">>
    ELSE <<BaseDest(category)>>

FallbackBaseDest(category) == Destination(category, category)

\* the index of the last "." of name, 0 if there is none
LastDot(name) ==
    IF \E i \in 1..Len(name) : name[i] = "."
      THEN CHOOSE i \in 1..Len(name) :
              /\ name[i] = "."
              /\ \A j \in (i + 1)..Len(name) : name[j] # "."
      ELSE 0

\* filename.rsplit(".", 1)
Rsplit(name) ==
    IF LastDot(name) = 0 THEN <<name>>
    ELSE <<SubSeq(name, 1, LastDot(name) - 1),
           SubSeq(name, LastDot(name) + 1, Len(name))>>

Digits == <<"1", "2", "3", "4", "5", "6", "7", "8", "9">>

\* str(counter), for the counters a run reaches
Str(counter) == <<Digits[counter]>>

NewFilename(filename, counter) ==
    LET name_parts == Rsplit(filename)
    IN  IF Len(name_parts) = 2
          THEN name_parts[1] \o <<"_">> \o Str(counter) \o <<".">>
                   \o name_parts[2]
          ELSE filename \o <<"_">> \o Str(counter)

\* where a file is before it is moved: a path of no directory
Source == <<>>

\* final_path.exists()
Exists(path) == path \in DOMAIN dirs.dest

\* worker v is inside _organize_file
Busy(v) == workers[v].pc \in {"check", "move", "fallback"}

\* worker w goes on as r; workers inside the function at the same time are
\* marked as having run side by side
Act(w, r) ==
    [v \in Workers |->
        IF v = w
          THEN [r EXCEPT !.raced = @ \/ \E u \in Workers \ {w} : Busy(u)]
          ELSE IF Busy(v) THEN [workers[v] EXCEPT !.raced = TRUE]
               ELSE workers[v]]

OrganizeDest(w) ==
    /\ workers[w].pc = "start"
    /\ \E mkdir_ok \in BOOLEAN :
          LET final_dest_dir ==
                  FinalDestDir(workers[w].category, workers[w].ocr_metadata)
          IN  workers' = Act(w,
                  IF mkdir_ok
                    THEN [workers[w] EXCEPT
                            !.final_path =
                                <<final_dest_dir, workers[w].file.base>>,
                            !.counter = 1, !.pc = "check"]
                    ELSE [workers[w] EXCEPT !.pc = "fallback"])
    /\ UNCHANGED <<pipeline, scan, stab, clock, dirs>>

\* one turn of the loop with a single test: the behaviour the spec rules out
OrganizeCheckOnce(w) ==
    /\ workers[w].pc = "check"
    /\ workers' = Act(w,
          IF Exists(workers[w].final_path) /\ workers[w].counter = 1
            THEN [workers[w] EXCEPT
                    !.final_path =
                        <<workers[w].final_path[1],
                          NewFilename(workers[w].file.base,
                                      workers[w].counter)>>,
                    !.counter = @ + 1]
            ELSE [workers[w] EXCEPT !.pc = "move"])
    /\ UNCHANGED <<pipeline, scan, stab, clock, dirs>>

OrganizeCheck(w) ==
    /\ workers[w].pc = "check"
    /\ workers' = Act(w,
          IF Exists(workers[w].final_path)
            THEN [workers[w] EXCEPT
                    !.final_path =
                        <<workers[w].final_path[1],
                          NewFilename(workers[w].file.base,
                                      workers[w].counter)>>,
                    !.counter = @ + 1]
            ELSE [workers[w] EXCEPT !.pc = "move"])
    /\ UNCHANGED <<pipeline, scan, stab, clock, dirs>>

OrganizeMove(w) ==
    /\ workers[w].pc = "move"
    /\ \E move_ok \in BOOLEAN :
          IF move_ok
            THEN /\ dirs' = [dirs EXCEPT !.dest =
                        Put(@, workers[w].final_path, workers[w].file)]
                 /\ workers' = Act(w, [workers[w] EXCEPT
                        !.at = workers[w].final_path,
                        !.result = ProcessingResult(TRUE, "destination", "",
                                                    NoMetadata),
                        !.pc = "done"])
            ELSE /\ workers' = Act(w, [workers[w] EXCEPT !.pc = "fallback"])
                 /\ UNCHANGED dirs
    /\ UNCHANGED <<pipeline, scan, stab, clock>>

FallbackDest(w) ==
    <<(<<FallbackBaseDest(workers[w].category)>>), workers[w].file.base>>

\* a fallback whose failure is not raised
OrganizeFallbackQuiet(w) ==
    /\ workers[w].pc = "fallback"
    /\ \E move_ok \in BOOLEAN :
          /\ dirs' = IF move_ok
                        THEN [dirs EXCEPT !.dest =
                                Put(@, FallbackDest(w), workers[w].file)]
                        ELSE dirs
          /\ workers' = Act(w, [workers[w] EXCEPT
                !.final_path = FallbackDest(w),
                !.at = IF move_ok THEN FallbackDest(w) ELSE @,
                !.fallback = TRUE,
                !.result = ProcessingResult(TRUE, "destination", "",
                                            NoMetadata),
                !.pc = "done"])
    /\ UNCHANGED <<pipeline, scan, stab, clock>>

OrganizeFallback(w) ==
    /\ workers[w].pc = "fallback"
    /\ \E move_ok \in BOOLEAN :
          IF move_ok
            THEN /\ dirs' = [dirs EXCEPT !.dest =
                        Put(@, FallbackDest(w), workers[w].file)]
                 /\ workers' = Act(w, [workers[w] EXCEPT
                        !.final_path = FallbackDest(w),
                        !.at = FallbackDest(w),
                        !.fallback = TRUE,
                        !.result = ProcessingResult(TRUE, "destination", "",
                                                    NoMetadata),
                        !.pc = "done"])
            ELSE /\ workers' = Act(w, [workers[w] EXCEPT
                        !.fallback = TRUE,
                        !.result = ProcessingFailed, !.pc = "done"])
                 /\ UNCHANGED dirs
    /\ UNCHANGED <<pipeline, scan, stab, clock>>

\* the files the destination tree may hold before the workers start
OldFile == [dir |-> 0, base |-> <<>>]

OldPaths ==
    {<<(<<"pdf">>), <<"a", ".", "t">>>>,
     <<(<<"pdf">>), <<"a", "_", "1", ".", "t">>>>}

InitOrganize ==
    /\ PipelineIdle
    /\ scan = ScanIdle
    /\ clock = 0
    /\ stab = NoStab
    /\ \E old \in SUBSET OldPaths :
          dirs = [NoDirs EXCEPT !.dest = [path \in old |-> OldFile],
                                !.old = old]
    /\ \E bases \in [Workers -> FileNames],
          categories \in [Workers -> OrganizedCategories],
          ocr \in [Workers -> BOOLEAN] :
          workers = [w \in Workers |->
                        [pc |-> "start", file |-> FileOf(w, bases[w]),
                         category |-> categories[w],
                         ocr_metadata |-> ocr[w], final_path |-> <<>>,
                         counter |-> 0, at |-> Source, fallback |-> FALSE,
                         raced |-> FALSE, result |-> NoResult]]

NextOrganize ==
    \/ \E w \in Workers : OrganizeDest(w)
    \/ \E w \in Workers : OrganizeCheck(w)
    \/ \E w \in Workers : OrganizeMove(w)
    \/ \E w \in Workers : OrganizeFallback(w)

SpecOrganize == InitOrganize /\ [][NextOrganize]_vars

(***************************************************************************)
(* _check_file_stability, step by step, on a file that something else may  *)
(* write to or delete at any moment.  The file is the number of writes it  *)
(* has seen, which stands for its size and modification time; Gone is a    *)
(* file that does not exist.  Time passes in time.sleep only, which may    *)
(* oversleep by a second.  polls records the time and the outcome of every *)
(* stat() the call made.                                                   *)
(***************************************************************************)
Gone == -1

\* return b
StabilityReturn(b) == [stab EXCEPT !.returned = b, !.pc = "done"]

\* the file is written to
WriteFile ==
    /\ stab.pc \notin {"idle", "done"}
    /\ stab.file # Gone
    /\ stab.file < MaxWrites
    /\ stab' = [stab EXCEPT !.file = @ + 1]
    /\ UNCHANGED <<pipeline, scan, clock, dirs, workers>>

\* the file is deleted or moved away
RemoveFile ==
    /\ stab.pc \notin {"idle", "done"}
    /\ stab.file # Gone
    /\ stab' = [stab EXCEPT
            !.file = Gone,
            !.gone_at = stab.pc,
            !.gone_open =
                clock - stab.start_time < stab.stability_check_duration]
    /\ UNCHANGED <<pipeline, scan, clock, dirs, workers>>

\* the first test without the configuration flag
StabilityEnterSampling ==
    /\ stab.pc = "enter"
    /\ stab' =
          IF stab.file = Gone THEN StabilityReturn("false")
          ELSE [stab EXCEPT !.pc = "stat"]
    /\ UNCHANGED <<pipeline, scan, clock, dirs, workers>>

\* the configuration test and the first path.exists()
StabilityEnter ==
    /\ stab.pc = "enter"
    /\ stab' =
          IF ~stab.check_file_stability THEN StabilityReturn("true")
          ELSE IF stab.file = Gone THEN StabilityReturn("false")
          ELSE [stab EXCEPT !.pc = "stat"]
    /\ UNCHANGED <<pipeline, scan, clock, dirs, workers>>

\* the first path.stat(): an exception of it, as for a file that is gone by
\* now, is caught and gives False
StabilityStat ==
    /\ stab.pc = "stat"
    /\ \E stat_ok \in BOOLEAN :
          stab' =
            IF stab.file = Gone \/ ~stat_ok THEN StabilityReturn("false")
            ELSE [stab EXCEPT !.initial = stab.file, !.start_time = clock,
                              !.polls = <<(<<clock, stab.file>>)>>,
                              !.pc = "loop"]
    /\ UNCHANGED <<pipeline, scan, clock, dirs, workers>>

\* the loop test with the bound included: one poll too many
StabilityLoopInclusive ==
    /\ stab.pc = "loop"
    /\ stab' = IF clock - stab.start_time <= stab.stability_check_duration
                 THEN [stab EXCEPT !.pc = "sleep"]
                 ELSE StabilityReturn("true")
    /\ UNCHANGED <<pipeline, scan, clock, dirs, workers>>

StabilityLoop ==
    /\ stab.pc = "loop"
    /\ stab' = IF clock - stab.start_time < stab.stability_check_duration
                 THEN [stab EXCEPT !.pc = "sleep"]
                 ELSE StabilityReturn("true")
    /\ UNCHANGED <<pipeline, scan, clock, dirs, workers>>

StabilitySleep ==
    /\ stab.pc = "sleep"
    /\ \E late \in 0..1 :
          /\ clock + stab.stability_check_interval + late <= Horizon
          /\ clock' = clock + stab.stability_check_interval + late
    /\ stab' = [stab EXCEPT !.pc = "exists"]
    /\ UNCHANGED <<pipeline, scan, dirs, workers>>

\* path.exists() after the sleep
StabilityExists ==
    /\ stab.pc = "exists"
    /\ stab' = IF stab.file = Gone THEN StabilityReturn("false")
               ELSE [stab EXCEPT !.pc = "poll"]
    /\ UNCHANGED <<pipeline, scan, clock, dirs, workers>>

\* a poll whose stat() failure is not caught
StabilityPollRaising ==
    /\ stab.pc = "poll"
    /\ \E stat_ok \in BOOLEAN :
          stab' =
            IF stab.file = Gone \/ ~stat_ok THEN StabilityReturn("raised")
            ELSE [stab EXCEPT
                    !.initial = stab.file,
                    !.start_time =
                        IF stab.file # stab.initial THEN clock ELSE @,
                    !.polls = Append(@, <<clock, stab.file>>),
                    !.pc = "loop"]
    /\ UNCHANGED <<pipeline, scan, clock, dirs, workers>>

\* a poll that takes the new size and time but lets the timer run on
StabilityPollNoReset ==
    /\ stab.pc = "poll"
    /\ \E stat_ok \in BOOLEAN :
          stab' =
            IF stab.file = Gone \/ ~stat_ok THEN StabilityReturn("false")
            ELSE [stab EXCEPT
                    !.initial = stab.file,
                    !.polls = Append(@, <<clock, stab.file>>),
                    !.pc = "loop"]
    /\ UNCHANGED <<pipeline, scan, clock, dirs, workers>>

\* a poll that restarts the timer whether the file changed or not
StabilityPollRestarting ==
    /\ stab.pc = "poll"
    /\ \E stat_ok \in BOOLEAN :
          stab' =
            IF stab.file = Gone \/ ~stat_ok THEN StabilityReturn("false")
            ELSE [stab EXCEPT
                    !.initial = stab.file,
                    !.start_time = clock,
                    !.polls = Append(@, <<clock, stab.file>>),
                    !.pc = "loop"]
    /\ UNCHANGED <<pipeline, scan, clock, dirs, workers>>

StabilityPoll ==
    /\ stab.pc = "poll"
    /\ \E stat_ok \in BOOLEAN :
          stab' =
            IF stab.file = Gone \/ ~stat_ok THEN StabilityReturn("false")
            ELSE [stab EXCEPT
                    !.initial = stab.file,
                    !.start_time =
                        IF stab.file # stab.initial THEN clock ELSE @,
                    !.polls = Append(@, <<clock, stab.file>>),
                    !.pc = "loop"]
    /\ UNCHANGED <<pipeline, scan, clock, dirs, workers>>

\* process_file, step 2: what it does with the answer of the check
AfterStability ==
    /\ stab.pc = "done" /\ stab.stage = "stability"
    /\ stab' =
          IF stab.returned = "true" THEN [stab EXCEPT !.stage = "scan"]
          ELSE IF stab.returned = "false"
            THEN [stab EXCEPT !.stage = "returned", !.result = NotStable]
          ELSE [stab EXCEPT !.stage = "returned",
                            !.result = ProcessingResult(FALSE, "none",
                                           "exception", NoMetadata)]
    /\ UNCHANGED <<pipeline, scan, clock, dirs, workers>>

InitStability ==
    /\ PipelineIdle
    /\ scan = ScanIdle
    /\ clock = 0
    /\ dirs = NoDirs
    /\ workers = <<>>
    /\ \E enabled \in BOOLEAN, duration \in 0..MaxDuration,
          interval \in 1..MaxInterval, file \in {Gone, 0} :
          stab = [pc |-> "enter", check_file_stability |-> enabled,
                  stability_check_duration |-> duration,
                  stability_check_interval |-> interval,
                  file |-> file, initial |-> 0, start_time |-> 0,
                  polls |-> <<>>, returned |-> "none",
                  gone_at |-> "never", gone_open |-> FALSE,
                  stage |-> "stability", result |-> NoResult]

NextStability ==
    \/ WriteFile
    \/ RemoveFile
    \/ StabilityEnter
    \/ StabilityStat
    \/ StabilityLoop
    \/ StabilitySleep
    \/ StabilityExists
    \/ StabilityPoll
    \/ AfterStability

SpecStability == InitStability /\ [][NextStability]_vars

\* the steps of the call itself: process_file runs them one after another
\* and none of them blocks, time.sleep included
StabilitySteps ==
    \/ StabilityEnter
    \/ StabilityStat
    \/ StabilityLoop
    \/ StabilitySleep
    \/ StabilityExists
    \/ StabilityPoll
    \/ AfterStability

\* the thread that called process_file keeps running; whoever writes to the
\* file or removes it owes nothing
SpecStabilityFair == SpecStability /\ WF_vars(StabilitySteps)

(***************************************************************************)
(* process_file called twice for one path, the calls running one after the *)
(* other or side by side.  Only the steps that look at the filesystem or   *)
(* change it are kept: the validation of the path, the checks before the   *)
(* classification, the extraction of an archive into the temporary         *)
(* directory of the call, the processing of the extracted member, and the  *)
(* move of the file itself.  A move within one filesystem is a rename: of  *)
(* two moves of the same file one succeeds.                                *)
(***************************************************************************)
SubmittedName == <<"z">>

MemberName == <<"a">>

\* the first of name, name_1, name_2 that is free in directory dir
FreeName(dir, name) ==
    IF ~Exists(<<dir, name>>) THEN name
    ELSE IF ~Exists(<<dir, NewFilename(name, 1)>>) THEN NewFilename(name, 1)
    ELSE NewFilename(name, 2)

\* the call of worker w returns res
Returns(w, res) ==
    workers' = [workers EXCEPT ![w] = [@ EXCEPT !.result = res, !.pc = "done"]]

\* step 1: a path that does not exist any more fails the validation, and
\* the quarantine of a file that is not there fails too
ResubmitValidate(w) ==
    /\ workers[w].pc = "validate"
    /\ IF loc[Top] = "orig"
         THEN workers' = [workers EXCEPT ![w] = [@ EXCEPT !.pc = "check"]]
         ELSE Returns(w, QuarantineFailed)
    /\ UNCHANGED <<config, files, loc, stack, trace, hist, qlog, result, nest,
                   scan, clock, dirs, stab>>

\* steps 2 to 5: without the file the stability check says False; with it
\* an archive goes to _process_archive and any other file to _organize_file
ResubmitCheck(w) ==
    /\ workers[w].pc = "check"
    /\ IF loc[Top] = "orig"
         THEN workers' = [workers EXCEPT ![w] = [@ EXCEPT
                 !.pc = IF workers[w].archive THEN "extract" ELSE "organize"]]
         ELSE Returns(w, NotStable)
    /\ UNCHANGED <<config, files, loc, stack, trace, hist, qlog, result, nest,
                   scan, clock, dirs, stab>>

\* the archive is extracted into the temporary directory of this call
ResubmitExtract(w) ==
    /\ workers[w].pc = "extract"
    /\ IF loc[Top] = "orig"
         THEN workers' = [workers EXCEPT ![w] = [@ EXCEPT !.pc = "member"]]
         ELSE Returns(w, ProcessingResult(FALSE, "none",
                             "Archive processing failed", NoMetadata))
    /\ UNCHANGED <<config, files, loc, stack, trace, hist, qlog, result, nest,
                   scan, clock, dirs, stab>>

\* the member loop: the extracted copy is organized under a free name; a
\* member whose processing fails is logged and left out
ResubmitMember(w) ==
    /\ workers[w].pc = "member"
    /\ \E member_ok \in BOOLEAN :
          LET dir == <<BaseDest("document")>>
          IN  dirs' = IF member_ok
                        THEN [dirs EXCEPT !.dest =
                                Put(@, <<dir, FreeName(dir, MemberName)>>,
                                    FileOf(w, MemberName))]
                        ELSE dirs
    /\ workers' = [workers EXCEPT ![w] = [@ EXCEPT !.pc = "organize"]]
    /\ UNCHANGED <<config, files, loc, stack, trace, hist, qlog, result, nest,
                   scan, clock, stab>>

\* the submitted file itself is moved; the move fails when the file has
\* been moved by the other call, or for a reason of its own
ResubmitOrganize(w) ==
    /\ workers[w].pc = "organize"
    /\ \E move_ok \in BOOLEAN :
          LET dir == <<BaseDest(IF workers[w].archive THEN "archive"
                                ELSE "document")>>
          IN  IF move_ok /\ loc[Top] = "orig"
                THEN /\ dirs' = [dirs EXCEPT !.dest =
                            Put(@, <<dir, FreeName(dir, SubmittedName)>>,
                                FileOf(0, SubmittedName))]
                     /\ loc' = [loc EXCEPT ![Top] = "dest"]
                     /\ Returns(w, ProcessingResult(TRUE, "dest", "",
                                                    NoMetadata))
                ELSE /\ Returns(w, IF workers[w].archive
                            THEN ProcessingResult(FALSE, "none",
                                     "Archive processing failed", NoMetadata)
                            ELSE ProcessingFailed)
                     /\ UNCHANGED <<dirs, loc>>
    /\ UNCHANGED <<config, files, stack, trace, hist, qlog, result, nest,
                   scan, clock, stab>>

InitResubmit ==
    /\ config = DefaultConfig
    /\ files = <<>>
    /\ loc = (Top :> "orig")
    /\ stack = <<>>
    /\ trace = <<>>
    /\ hist = <<>>
    /\ qlog = {}
    /\ result = <<>>
    /\ nest = MaxNest
    /\ scan = ScanIdle
    /\ clock = 0
    /\ dirs = NoDirs
    /\ stab = NoStab
    /\ \E archive \in BOOLEAN :
          workers = [w \in Workers |->
                        [pc |-> "validate", archive |-> archive,
                         result |-> NoResult]]

NextResubmit ==
    \/ \E w \in Workers : ResubmitValidate(w)
    \/ \E w \in Workers : ResubmitCheck(w)
    \/ \E w \in Workers : ResubmitExtract(w)
    \/ \E w \in Workers : ResubmitMember(w)
    \/ \E w \in Workers : ResubmitOrganize(w)

SpecResubmit == InitResubmit /\ [][NextResubmit]_vars

(***************************************************************************)
(* The exit-code-1 branch of _scan_file_security on the text clamscan      *)
(* prints.  The output is a sequence of tokens: pieces of plain text, the  *)
(* two strings the pattern ": (.+) FOUND" looks for, and the line end.     *)
(* clamscan --no-summary prints "<path>: <signature> FOUND" for an         *)
(* infected file; the path is the one it was given, and a file name may    *)
(* hold any character.                                                     *)
(***************************************************************************)
Colon == ": "

Found == " FOUND"

Newline == "\n"

\* paths: plain text first, then plain text and the two strings
ScannedPaths ==
    {p \in SeqsUpTo({"p", Colon, Found}, MaxPath) : Len(p) > 0 /\ p[1] = "p"}

Signatures == {"Eicar", "Win"}

\* what exit code 1 may come with
Stdouts ==
    {path \o <<Colon, sig, Found, Newline>> :
        path \in ScannedPaths, sig \in Signatures}
    \cup {<<>>, <<"p", Colon, "w", Newline>>, <<"w", Found, Newline>>}

Stderrs == {<<>>, <<"w", Newline>>, <<"w", Colon, "w", Newline>>}

\* "." matches everything but the line end
OneLine(output, i, j) == \A k \in i..j : output[k] # Newline

\* the matches of ": (.+) FOUND" in output, as <<start, end>>
MatchesAt(output) ==
    {m \in (1..Len(output)) \X (1..Len(output)) :
        /\ output[m[1]] = Colon
        /\ output[m[2]] = Found
        /\ m[2] > m[1] + 1
        /\ OneLine(output, m[1] + 1, m[2] - 1)}

\* re.search: the leftmost start, and from it the longest match; the value
\* is <<group 1>>, or <<>> for no match
ReSearch(output) ==
    LET ms == MatchesAt(output)
    IN  IF ms = {} THEN <<>>
        ELSE LET start == CHOOSE i \in {m[1] : m \in ms} :
                              \A m \in ms : i <= m[1]
                 end == CHOOSE j \in {m[2] : m \in ms} :
                            /\ <<start, j>> \in ms
                            /\ \A m \in ms : m[1] = start => m[2] <= j
             IN  <<SubSeq(output, start + 1, end - 1)>>

UnknownThreat == <<"Unknown threat">>

\* lines 419-427
ThreatName(output) ==
    LET threat_match == ReSearch(output)
    IN  IF threat_match # <<>> THEN threat_match[1] ELSE UnknownThreat

\* subprocess.run has returned with returncode 1
ScanExitOne ==
    /\ scan.pc = "run"
    /\ scan' = [scan EXCEPT
          !.scan_result =
              SecurityScanResult(FALSE, ThreatName(scan.stdout \o scan.stderr)),
          !.pc = "done"]
    /\ UNCHANGED <<pipeline, placed>>

InitScanOutput ==
    /\ PipelineIdle
    /\ NothingPlaced
    /\ \E stdout \in Stdouts, stderr \in Stderrs :
          scan = [pc |-> "run", stdout |-> stdout, stderr |-> stderr,
                  scan_result |-> SecurityScanResult(TRUE, <<>>)]

NextScanOutput == ScanExitOne

SpecScanOutput == InitScanOutput /\ [][NextScanOutput]_vars

(***************************************************************************)
(* The metadata extractor and the directory _organize_file builds from its *)
(* result.  A text is the sequence of the things the patterns can find in  *)
(* it: dates, sender lines and business keywords, in the order they stand  *)
(* in the text.  A date keeps its numbers, so that strptime is computed;   *)
(* a sender keeps its characters, so that strip, the cut to 50 characters  *)
(* and the replacement of unsafe characters are computed.                  *)
(***************************************************************************)
DateToken(pattern, sep, a, b, c) ==
    [kind |-> "date", pattern |-> pattern, sep |-> sep,
     a |-> a, b |-> b, c |-> c, chars |-> <<>>]

SenderToken(pattern, chars) ==
    [kind |-> "sender", pattern |-> pattern, sep |-> "",
     a |-> 0, b |-> 0, c |-> 0, chars |-> chars]

KeywordToken(keyword) ==
    [kind |-> "keyword", pattern |-> 0, sep |-> "",
     a |-> 0, b |-> 0, c |-> 0, chars |-> <<keyword>>]

\* n times the character ch
Rep(ch, n) == [i \in 1..n |-> ch]

\* what the date patterns find: 1 is a-b-c with a year of 2 to 4 digits
\* last, 2 is year-b-c, 3 is "<month name> a, c" and 4 is "a <mon> c"
DateTokens ==
    {DateToken(1, "/", 1, 13, 2024), DateToken(1, "-", 13, 1, 2024),
     DateToken(1, "-", 12, 34, 5678), DateToken(1, "/", 1, 2, 24),
     DateToken(2, "-", 2023, 12, 1), DateToken(2, "/", 2023, 13, 1),
     DateToken(3, " ", 5, 3, 2024), DateToken(4, " ", 5, 1, 2024)}

\* what the sender patterns find, with group 1 as matched: an address, the
\* words after "from" (a blank alone, a name, a long run of words) and the
\* name after "sender"
SenderTokens ==
    {SenderToken(1, <<"a", "@", "b">>), SenderToken(2, <<" ">>),
     SenderToken(2, <<"b", "o", "b", " ">>), SenderToken(2, Rep("a", 51)),
     SenderToken(3, <<"a", "m", "y">>)}

business_keywords ==
    <<"invoice", "receipt", "contract", "agreement", "proposal", "statement",
      "bill", "purchase", "order", "delivery", "payment", "quote", "estimate">>

KeywordTokens == {KeywordToken("order"), KeywordToken("invoice")}

Tokens == DateTokens \cup SenderTokens \cup KeywordTokens

\* the first token of the text that pattern number k of a kind matches, as
\* <<token>>, or <<>>
Search(kind, k, text) ==
    LET found == {i \in 1..Len(text) :
                      text[i].kind = kind /\ text[i].pattern = k}
    IN  IF found = {} THEN <<>>
        ELSE <<text[CHOOSE i \in found : \A j \in found : i <= j]>>

\* match.group(1): of pattern 3 the month name alone
DateStr(match) ==
    IF match.pattern = 3
      THEN [form |-> "name", sep |-> "", x |-> <<match.b>>]
    ELSE IF match.pattern = 4
      THEN [form |-> "abbr", sep |-> " ", x |-> <<match.a, match.b, match.c>>]
    ELSE [form |-> "numeric", sep |-> match.sep,
          x |-> <<match.a, match.b, match.c>>]

Format(form, sep, fields) == [form |-> form, sep |-> sep, fields |-> fields]

date_formats ==
    <<Format("numeric", "/", <<"m", "d", "Y">>),
      Format("numeric", "/", <<"d", "m", "Y">>),
      Format("numeric", "/", <<"Y", "m", "d">>),
      Format("numeric", "-", <<"Y", "m", "d">>),
      Format("numeric", "-", <<"m", "d", "Y">>),
      Format("numeric", "-", <<"d", "m", "Y">>),
      Format("name", " ", <<"m", "d", "Y">>),
      Format("abbr", " ", <<"d", "m", "Y">>)>>

NoDate == [year |-> 0, month |-> 0]

\* a directive takes the number it stands on
Takes(field, n) ==
    IF field = "m" THEN n \in 1..12
    ELSE IF field = "d" THEN n \in 1..31
    ELSE n \in 1000..9999

FieldOf(fmt, field) == CHOOSE i \in 1..3 : fmt.fields[i] = field

\* datetime.strptime(date_str, fmt), NoDate for ValueError
Strptime(date_str, fmt) ==
    IF /\ date_str.form = fmt.form
       /\ date_str.sep = fmt.sep
       /\ Len(date_str.x) = 3
       /\ \A i \in 1..3 : Takes(fmt.fields[i], date_str.x[i])
      THEN [year |-> date_str.x[FieldOf(fmt, "Y")],
            month |-> date_str.x[FieldOf(fmt, "m")]]
      ELSE NoDate

\* the loop over date_formats from format i on
RECURSIVE ParseFrom(_, _)
ParseFrom(date_str, i) ==
    IF i > Len(date_formats) THEN NoDate
    ELSE IF Strptime(date_str, date_formats[i]) # NoDate
      THEN Strptime(date_str, date_formats[i])
    ELSE ParseFrom(date_str, i + 1)

\* the loop over date_patterns from pattern k on: the first pattern that
\* matches ends the loop, whether its match parses or not
RECURSIVE DateFrom(_, _)
DateFrom(text, k) ==
    IF k > 4 THEN NoDate
    ELSE IF Search("date", k, text) # <<>>
      THEN ParseFrom(DateStr(Search("date", k, text)[1]), 1)
    ELSE DateFrom(text, k + 1)

\* str.strip() for the blank
RECURSIVE Strip(_)
Strip(chars) ==
    IF chars = <<>> THEN <<>>
    ELSE IF chars[1] = " " THEN Strip(Tail(chars))
    ELSE IF chars[Len(chars)] = " " THEN Strip(SubSeq(chars, 1, Len(chars) - 1))
    ELSE chars

\* the loop over sender_patterns; <<>> is no sender, or an empty one
RECURSIVE SenderFrom(_, _)
SenderFrom(text, k) ==
    IF k > 3 THEN <<>>
    ELSE IF Search("sender", k, text) # <<>>
      THEN Strip(Search("sender", k, text)[1].chars)
    ELSE SenderFrom(text, k + 1)

\* "keyword in text"
InText(keyword, text) ==
    \E i \in 1..Len(text) : text[i] = KeywordToken(keyword)

\* the loop over business_keywords; <<>> is no context
RECURSIVE ContextFrom(_, _)
ContextFrom(text, k) ==
    IF k > Len(business_keywords) THEN <<>>
    ELSE IF InText(business_keywords[k], text) THEN <<business_keywords[k]>>
    ELSE ContextFrom(text, k + 1)

OCRMetadata(date_detected, sender, business_context) ==
    [present |-> TRUE, date_detected |-> date_detected, sender |-> sender,
     business_context |-> business_context]

\* None in place of an OCRMetadata
NoOcrMetadata ==
    [present |-> FALSE, date_detected |-> NoDate, sender |-> <<>>,
     business_context |-> <<>>]

ExtractStructuredMetadata(text) ==
    OCRMetadata(DateFrom(text, 1), SenderFrom(text, 1), ContextFrom(text, 1))

\* the length sender is cut to
SenderLimit == 50

UnsafeChars == {"<", ">", ":", "\"", "/", "\\", "|", "?", "*"}

\* the replacement without the cut
CleanSenderUncut(sender) ==
    [i \in 1..Len(sender) |->
        IF sender[i] \in UnsafeChars THEN "_" ELSE sender[i]]

\* re.sub(r'[<>:"/\\|?*]', "_", sender[:50])
CleanSender(sender) ==
    LET cut == SubSeq(sender, 1,
                      IF Len(sender) < SenderLimit THEN Len(sender)
                      ELSE SenderLimit)
    IN  [i \in 1..Len(cut) |-> IF cut[i] \in UnsafeChars THEN "_" ELSE cut[i]]

YearStr == (2023 :> "2023" @@ 2024 :> "2024")

MonthStr ==
    <<"01", "02", "03", "04", "05", "06", "07", "08", "09", "10", "11", "12">>

\* date_detected.strftime("%Y/%m")
Strftime(date) == <<YearStr[date.year], "/", MonthStr[date.month]>>

\* dest_parts, lines 902-917: every part is a sequence of characters
DestParts(category, ocr_metadata) ==
    <<(<<BaseDest(category)>>)>>
    \o (IF ocr_metadata.present /\ ocr_metadata.date_detected # NoDate
          THEN <<Strftime(ocr_metadata.date_detected)>> ELSE <<>>)
    \o (IF ocr_metadata.present /\ ocr_metadata.business_context # <<>>
          THEN <<ocr_metadata.business_context>> ELSE <<>>)
    \o (IF ocr_metadata.present /\ ocr_metadata.sender # <<>>
          THEN <<CleanSender(ocr_metadata.sender)>> ELSE <<>>)

\* the extensions _extract_ocr_metadata opens as an image, one that it does
\* not, and .pdf
OcrExtensions == {"jpg", "gif", "pdf"}

\* images.extend(pdf_images[:3])
PageLimit == 3

\* _extract_ocr_metadata returns metadata (None as NoOcrMetadata)
OcrReturns(metadata) ==
    workers' = [workers EXCEPT !.ocr_metadata = metadata, !.pc = "organize"]

\* lines 717-739 with a failed conversion of the PDF raised to the caller
OcrOpenRaising ==
    /\ workers.pc = "ocr"
    /\ IF ~workers.tesseract THEN OcrReturns(NoOcrMetadata)
       ELSE IF workers.ext = "jpg"
         THEN \E open_ok \in BOOLEAN :
                IF open_ok
                  THEN workers' = [workers EXCEPT !.images = 1, !.pc = "page"]
                  ELSE OcrReturns(NoOcrMetadata)
       ELSE IF workers.ext = "pdf" /\ workers.pdf2image
         THEN \E pages \in 0..MaxPages, convert_ok \in BOOLEAN :
                IF convert_ok
                  THEN workers' = [workers EXCEPT
                          !.images = IF pages < PageLimit THEN pages
                                     ELSE PageLimit,
                          !.pc = "page"]
                  ELSE workers' = [workers EXCEPT
                          !.result = ProcessingFailed, !.pc = "done"]
       ELSE OcrReturns(NoOcrMetadata)
    /\ UNCHANGED <<pipeline, scan, clock, dirs, stab>>

\* lines 717-739: without the OCR engine, for an extension that is neither
\* an image's nor .pdf, and when opening or converting fails, the result is
\* None
OcrOpen ==
    /\ workers.pc = "ocr"
    /\ IF ~workers.tesseract THEN OcrReturns(NoOcrMetadata)
       ELSE IF workers.ext = "jpg"
         THEN \E open_ok \in BOOLEAN :
                IF open_ok
                  THEN workers' = [workers EXCEPT !.images = 1, !.pc = "page"]
                  ELSE OcrReturns(NoOcrMetadata)
       ELSE IF workers.ext = "pdf" /\ workers.pdf2image
         THEN \E pages \in 0..MaxPages, convert_ok \in BOOLEAN :
                IF convert_ok
                  THEN workers' = [workers EXCEPT
                          !.images = IF pages < PageLimit THEN pages
                                     ELSE PageLimit,
                          !.pc = "page"]
                  ELSE OcrReturns(NoOcrMetadata)
       ELSE OcrReturns(NoOcrMetadata)
    /\ UNCHANGED <<pipeline, scan, clock, dirs, stab>>

\* what image_to_string gives for one page: an exception, blank text, or a
\* text with one thing in it for the patterns
PageRaises ==
    [kind |-> "raise", pattern |-> 0, sep |-> "",
     a |-> 0, b |-> 0, c |-> 0, chars |-> <<>>]

PageBlank ==
    [kind |-> "blank", pattern |-> 0, sep |-> "",
     a |-> 0, b |-> 0, c |-> 0, chars |-> <<>>]

PageOutcomes == {PageRaises, PageBlank} \cup Tokens

\* lines 742-752: one page; a page that fails or is blank adds nothing
OcrPage ==
    /\ workers.pc = "page"
    /\ workers.images > 0
    /\ \E outcome \in PageOutcomes :
          workers' = [workers EXCEPT
              !.images = @ - 1,
              !.all_text = IF outcome \in {PageRaises, PageBlank} THEN @
                           ELSE Append(@, outcome)]
    /\ UNCHANGED <<pipeline, scan, clock, dirs, stab>>

\* lines 754-765: no text, no metadata; else the structured metadata of the
\* joined text
OcrFinish ==
    /\ workers.pc = "page"
    /\ workers.images = 0
    /\ OcrReturns(IF workers.all_text = <<>> THEN NoOcrMetadata
                  ELSE ExtractStructuredMetadata(workers.all_text))
    /\ UNCHANGED <<pipeline, scan, clock, dirs, stab>>

\* the name of the file that is organized
OrganizedName == <<"f">>

\* step 7 of process_file with the metadata of step 6: the first move, the
\* fallback move, or both fail
OrganizeWithMetadata ==
    /\ workers.pc = "organize"
    /\ \E outcome \in OrganizeOutcomes :
          workers' = [workers EXCEPT
              !.pc = "done",
              !.fallback = outcome # "moved",
              !.final_dest_dir = DestParts(workers.category,
                                           workers.ocr_metadata),
              !.at = IF outcome = "moved"
                       THEN <<DestParts(workers.category,
                                        workers.ocr_metadata),
                              OrganizedName>>
                     ELSE IF outcome = "fallback"
                       THEN <<(<<(<<FallbackBaseDest(workers.category)>>)>>),
                              OrganizedName>>
                     ELSE Source,
              !.result = IF outcome = "failed" THEN ProcessingFailed
                         ELSE ProcessingResult(TRUE, "destination", "",
                                               NoMetadata)]
    /\ UNCHANGED <<pipeline, scan, clock, dirs, stab>>

\* metadata a caller of _organize_file may pass: senders with characters
\* that are not safe in a file name, and senders around the limit
DirectSenders ==
    {<<>>, <<"a", "/", "b">>, <<":", "?", "*">>, <<"<", ">", "|", "\"", "\\">>,
     Rep("a", SenderLimit), Rep("/", SenderLimit + 1)}

DirectMetadata ==
    {OCRMetadata(date, sender, context) :
        date \in {NoDate, [year |-> 2024, month |-> 3]},
        sender \in DirectSenders,
        context \in {<<>>, <<"invoice">>}}

\* a call of process_file that has reached step 6 with an image or a PDF, or
\* a call of _organize_file with metadata of the caller
InitMetadata ==
    /\ PipelineIdle
    /\ scan = ScanIdle
    /\ clock = 0
    /\ dirs = NoDirs
    /\ stab = NoStab
    /\ \E category \in {"image", "pdf", "document"}, ext \in OcrExtensions,
          tesseract \in BOOLEAN, pdf2image \in BOOLEAN,
          metadata \in DirectMetadata \cup {NoOcrMetadata} :
          /\ category = "document" =>
                ext = "pdf" /\ tesseract /\ pdf2image
          /\ category # "document" => metadata = NoOcrMetadata
          /\ workers = [pc |-> IF category = "document" THEN "organize"
                               ELSE "ocr",
                        category |-> category, ext |-> ext,
                        tesseract |-> tesseract, pdf2image |-> pdf2image,
                        images |-> 0, all_text |-> <<>>,
                        ocr_metadata |-> metadata, final_dest_dir |-> <<>>,
                        at |-> Source, fallback |-> FALSE,
                        result |-> NoResult]

NextMetadata == OcrOpen \/ OcrPage \/ OcrFinish \/ OrganizeWithMetadata

SpecMetadata == InitMetadata /\ [][NextMetadata]_vars

(***************************************************************************)
(* The head of _process_archive: the temporary directory and the test of   *)
(* the file name.  A name is its stem followed by its suffixes; the        *)
(* category comes from the classifier, which goes by the content type      *)
(* before the extension, so a file of any name may arrive as an archive.   *)
(***************************************************************************)
Suffixes ==
    {".zip", ".ZIP", ".jar", ".tar", ".gz", ".tgz", ".bz2", ".xz", ".rar",
     ".7z", ".txt"}

ArchiveNames == SeqsUpTo(Suffixes, MaxSuffixes)

\* str.lower() of a suffix
Lower(suffix) == IF suffix = ".ZIP" THEN ".zip" ELSE suffix

LowerName(name) == [i \in 1..Len(name) |-> Lower(name[i])]

\* name.endswith(alternatives), each alternative a sequence of suffixes
Endswith(name, alternatives) ==
    \E alt \in alternatives :
        /\ Len(name) >= Len(alt)
        /\ SubSeq(name, Len(name) - Len(alt) + 1, Len(name)) = alt

\* the test of line 520 without lower()
ArchiveFormatExact(name) ==
    IF Endswith(name, {<<".zip">>, <<".jar">>}) THEN "zip"
    ELSE IF Endswith(name, {<<".tar">>, <<".tar", ".gz">>, <<".tgz">>,
                            <<".tar", ".bz2">>})
      THEN "tar"
    ELSE "other"

\* lines 520-527: the extraction function chosen by the name
ArchiveFormat(name) ==
    IF Endswith(LowerName(name), {<<".zip">>, <<".jar">>}) THEN "zip"
    ELSE IF Endswith(LowerName(name),
                     {<<".tar">>, <<".tar", ".gz">>, <<".tgz">>,
                      <<".tar", ".bz2">>})
      THEN "tar"
    ELSE "other"

ArchiveFailed ==
    ProcessingResult(FALSE, "none", "Archive processing failed", NoMetadata)

Unsupported ==
    ProcessingResult(FALSE, "none", "Unsupported archive format", NoMetadata)

\* line 517: the temporary directory is created, or the call ends in the
\* last handler
ArchiveEnter ==
    /\ workers.pc = "enter"
    /\ \E mkdtemp_ok \in BOOLEAN :
          workers' = IF mkdtemp_ok
                       THEN [workers EXCEPT !.temp_dir = TRUE, !.pc = "format"]
                       ELSE [workers EXCEPT !.result = ArchiveFailed,
                                            !.pc = "done"]
    /\ UNCHANGED <<pipeline, scan, clock, dirs, stab>>

\* lines 520-531: a name of no known format returns from inside the with
\* block, which removes the temporary directory; any other goes on to its
\* extraction function
ArchiveFormatTest ==
    /\ workers.pc = "format"
    /\ workers' = IF ArchiveFormat(workers.name) = "other"
                    THEN [workers EXCEPT !.result = Unsupported,
                                         !.temp_dir = FALSE, !.pc = "done"]
                    ELSE [workers EXCEPT
                            !.format = ArchiveFormat(workers.name),
                            !.pc = "extract"]
    /\ UNCHANGED <<pipeline, scan, clock, dirs, stab>>

\* step 5 of process_file has called _process_archive(filepath)
InitArchiveFormat ==
    /\ PipelineIdle
    /\ scan = ScanIdle
    /\ clock = 0
    /\ dirs = NoDirs
    /\ stab = NoStab
    /\ \E name \in ArchiveNames :
          workers = [pc |-> "enter", name |-> name, category |-> "archive",
                     format |-> "none", temp_dir |-> FALSE, at |-> Source,
                     result |-> NoResult]

NextArchiveFormat == ArchiveEnter \/ ArchiveFormatTest

SpecArchiveFormat == InitArchiveFormat /\ [][NextArchiveFormat]_vars

(***************************************************************************)
(* _process_archive and the files it writes.  extractall writes the        *)
(* entries in archive order.  zipfile writes a link entry as a regular     *)
(* file; tarfile creates the link and, unless the interpreter's default    *)
(* extraction filter is "data", follows a link it created when a later     *)
(* entry's name leads through it.  "temp" and "outside" are the names      *)
(* written below the temporary directory and through a link out of it.     *)
(***************************************************************************)
LinkedEntry(name, kind, target) ==
    [name |-> name, size |-> 1, kind |-> kind, target |-> target]

\* the archives: plain files and directories, an entry with a traversal
\* marker, and a link to a directory outside followed by a file below it
LinkedArchives ==
    {<<>>,
     <<LinkedEntry(<<"a">>, "file", "none")>>,
     <<LinkedEntry(<<"..", "a">>, "file", "none")>>,
     <<LinkedEntry(<<"d">>, "dir", "none"),
       LinkedEntry(<<"d", "a">>, "file", "none")>>,
     <<LinkedEntry(<<"d">>, "symlink", "outside")>>,
     <<LinkedEntry(<<"d">>, "symlink", "outside"),
       LinkedEntry(<<"d", "a">>, "file", "none")>>,
     <<LinkedEntry(<<"a">>, "file", "none"),
       LinkedEntry(<<"d">>, "symlink", "outside"),
       LinkedEntry(<<"d", "a">>, "file", "none")>>}

\* the default extraction filter of tarfile, which depends on the
\* interpreter: none before Python 3.14, "data" from then on
TarFilters == {"fully_trusted", "data"}

\* the directory an entry name lies in
DirName(name) == SubSeq(name, 1, Len(name) - 1)

ExtractEnds(w, outcome) ==
    [w EXCEPT !.outcome = outcome, !.temp = {}, !.links = {},
              !.temp_dir = FALSE, !.pc = "done"]

\* line 517: the temporary directory
ExtractOpen ==
    /\ workers.pc = "open"
    /\ \E mkdtemp_ok \in BOOLEAN :
          workers' = IF mkdtemp_ok
                       THEN [workers EXCEPT !.temp_dir = TRUE, !.pc = "prescan"]
                       ELSE [workers EXCEPT !.outcome = "failed",
                                            !.pc = "done"]
    /\ UNCHANGED <<pipeline, scan, clock, dirs, stab>>

\* lines 520-536: the format test and the pre-scan of the entry list; an
\* ArchiveBombError sends the archive to _quarantine_file
ExtractPrescan ==
    /\ workers.pc = "prescan"
    /\ workers' =
          IF workers.format = "other" THEN ExtractEnds(workers, "unsupported")
          ELSE IF CheckEntries(workers.format, ScanStart,
                               workers.entries, 1).raised # "none"
            THEN ExtractEnds(workers, "bomb")
          ELSE [workers EXCEPT !.i = 1, !.pc = "extractall"]
    /\ UNCHANGED <<pipeline, scan, clock, dirs, stab>>

\* one entry of extractall (lines 649 and 683)
ExtractMember ==
    /\ workers.pc = "extractall" /\ workers.i <= Len(workers.entries)
    /\ LET e == workers.entries[workers.i]
           next == [workers EXCEPT !.i = @ + 1]
           below_file == DirName(e.name) \in workers.temp
                           /\ ~\E x \in 1..Len(workers.entries) :
                                  /\ workers.entries[x].name = DirName(e.name)
                                  /\ workers.entries[x].kind = "dir"
       IN  workers' =
             IF workers.format = "zip"
               THEN IF below_file THEN ExtractEnds(workers, "failed")
                    ELSE [next EXCEPT !.temp = @ \cup {e.name}]
             ELSE IF e.kind = "symlink"
               THEN IF workers.filter = "data" /\ e.target = "outside"
                      THEN ExtractEnds(workers, "failed")
                      ELSE [next EXCEPT !.temp = @ \cup {e.name},
                                        !.links = @ \cup {e.name}]
             ELSE IF DirName(e.name) \in workers.links
               THEN [next EXCEPT !.outside = @ \cup {e.name}]
             ELSE [next EXCEPT !.temp = @ \cup {e.name}]
    /\ UNCHANGED <<pipeline, scan, clock, dirs, stab>>

\* lines 538-618: the walk, the member loop and the move of the archive,
\* which end in a result, a quarantine or the last handler; leaving the with
\* block removes the temporary directory
ExtractFinish ==
    /\ workers.pc = "extractall" /\ workers.i > Len(workers.entries)
    /\ \E outcome \in {"success", "bomb", "failed"} :
          workers' = ExtractEnds(workers, outcome)
    /\ UNCHANGED <<pipeline, scan, clock, dirs, stab>>

InitExtractAll ==
    /\ PipelineIdle
    /\ scan = ScanIdle
    /\ clock = 0
    /\ dirs = NoDirs
    /\ stab = NoStab
    /\ \E format \in Formats, filter \in TarFilters,
          entries \in LinkedArchives :
          workers = [pc |-> "open", format |-> format, filter |-> filter,
                     entries |-> entries, i |-> 0, temp |-> {},
                     links |-> {}, outside |-> {}, temp_dir |-> FALSE,
                     outcome |-> "none"]

NextExtractAll ==
    \/ ExtractOpen
    \/ ExtractPrescan
    \/ ExtractMember
    \/ ExtractFinish

SpecExtractAll == InitExtractAll /\ [][NextExtractAll]_vars

(***************************************************************************)
(* Properties.  They read the record of what each call did: trace, hist,   *)
(* result, loc and qlog.                                                   *)
(***************************************************************************)
Paths == DOMAIN trace

Has(p, stage) == \E i \in 1..Len(trace[p]) : trace[p][i] = stage

Finished(p) == p \in DOMAIN result

Parent(p) == SubSeq(p, 1, Len(p) - 1)

OnStack(p) == \E d \in 1..Depth : stack[d].path = p

LaterStages == {"classify", "extract", "walk", "ocr", "organize"}

\* the stability check of p returned True
PassedStability(p) ==
    /\ Has(p, "stability")
    /\ Finished(p) => result[p].error # "File not stable for processing"

\* where a file is at the end of a call that tried to quarantine it and
\* failed: at its path, until the extraction directory it is in is removed
LeftInPlace(p) ==
    \/ loc[p] = "orig"
    \/ loc[p] = "removed" /\ p # Top /\ ~OnStack(Parent(p))

Quarantined(p, threat_name) ==
    /\ result[p].success /\ result[p].final_path = "quarantine"
    /\ loc[p] = "quarantine"
    /\ [path |-> p, threat_name |-> threat_name] \in qlog

QuarantineFailedFor(p) ==
    /\ result[p] = QuarantineFailed
    /\ loc[p] = "quarantine" \/ LeftInPlace(p)

\* C1: with fail_closed true and the scanner binary absent, whatever
\* enable_security_scan is, a file that passed path validation and the
\* stability check never reaches classification, extraction or organize: its
\* call goes on to the scan and from there to the quarantine step with threat
\* name AVUnavailable, which moves it into the quarantine directory (or
\* reports "Quarantine failed" when the move or the audit record fails).
FailClosedScannerAbsent ==
    (config.fail_closed /\ ~config.clamav_available) =>
        \A p \in Paths : PassedStability(p) =>
            /\ \A s \in LaterStages : ~Has(p, s)
            /\ loc[p] # "dest"
            /\ Has(p, "quarantine") => hist[p].threat = "AVUnavailable"
            /\ Finished(p) =>
                  /\ trace[p] = <<"validate", "stability", "scan", "quarantine">>
                  /\ Quarantined(p, "AVUnavailable") \/ QuarantineFailedFor(p)

FailClosedScannerAbsentWitness ==
    /\ config.fail_closed /\ ~config.clamav_available
    /\ ~config.enable_security_scan
    /\ Finished(Top) /\ PassedStability(Top)
    /\ Quarantined(Top, "AVUnavailable")

\* C1 as stated: every such file ends in the quarantine directory.
FailClosedAlwaysQuarantined ==
    (config.fail_closed /\ ~config.clamav_available) =>
        \A p \in Paths : (PassedStability(p) /\ Finished(p)) =>
            loc[p] = "quarantine"

\* C2: every scanner outcome gives a definite result: exit code 0 is clean,
\* exit code 1 is not clean, and scanner unavailable, another exit code, a
\* timeout and another exception give, under fail-closed, not clean with
\* threat name AVUnavailable, ScanError, ScanTimeout and ScanException, and
\* under fail-open, clean; the call always goes on with a result.
IndeterminateNames ==
    [unavailable |-> "AVUnavailable", exit_other |-> "ScanError",
     timeout |-> "ScanTimeout", exception |-> "ScanException"]

ScanOutcomeTable ==
    \A p \in Paths :
        LET o == hist[p].outcome
            r == hist[p].scan_result
        IN  /\ Has(p, "scan") <=> o # "none"
            /\ o # "none" => r.is_clean \in BOOLEAN
            /\ o = "exit0" => r.is_clean
            /\ o \in {"exit1_found", "exit1_nomatch"} => ~r.is_clean
            /\ o \in DOMAIN IndeterminateNames =>
                  IF config.fail_closed
                      THEN r = SecurityScanResult(FALSE, IndeterminateNames[o])
                      ELSE r.is_clean
            /\ o = "unavailable" <=> (Has(p, "scan") /\ ~config.clamav_available)

ScanOutcomeTableWitness ==
    /\ config.fail_closed
    /\ hist[Top].outcome = "timeout"
    /\ hist[Top].scan_result = SecurityScanResult(FALSE, "ScanTimeout")

\* C3: a file whose scan result is not clean is never classified, extracted
\* or organized in that call: the next stage is the quarantine step, and at
\* the end of the call the file is in the quarantine directory or, when the
\* quarantine move failed, still at its original path.
ScannedNotClean(p) == Has(p, "scan") /\ ~hist[p].scan_result.is_clean

NotCleanGoesToQuarantine ==
    \A p \in Paths : ScannedNotClean(p) =>
        /\ \A s \in LaterStages : ~Has(p, s)
        /\ loc[p] # "dest"
        /\ trace[p] \in {<<"validate", "stability", "scan">>,
                          <<"validate", "stability", "scan", "quarantine">>}
        /\ Has(p, "quarantine") =>
              hist[p].threat = hist[p].scan_result.threat_name
        /\ Finished(p) =>
              /\ Has(p, "quarantine")
              /\ loc[p] = "quarantine" \/ (~result[p].success /\ LeftInPlace(p))

NotCleanGoesToQuarantineWitness ==
    /\ Finished(Top) /\ ScannedNotClean(Top)
    /\ hist[Top].outcome = "exit1_found"
    /\ loc[Top] = "quarantine"

\* C4: validation is the first stage of every call and no later stage runs
\* for a path whose validation has not passed; a failed validation goes
\* straight to the quarantine step with threat name PathValidationError, and
\* none of the later stages run; a file that exists is moved into the
\* quarantine directory and the result is success unless the move or the
\* writing of the audit record raises, and then the result is "Quarantine
\* failed", as it is for a path where nothing exists.
FailedValidation(p) == hist[p].reason \notin {"none", "ok"}

ValidationFirst ==
    \A p \in Paths :
        /\ trace[p] # <<>> => trace[p][1] = "validate"
        /\ (\E s \in LaterStages \cup {"stability", "scan"} : Has(p, s)) =>
              hist[p].reason = "ok"
        /\ FailedValidation(p) =>
              /\ trace[p] \in {<<"validate">>, <<"validate", "quarantine">>}
              /\ Has(p, "quarantine") => hist[p].threat = "PathValidationError"
              /\ Finished(p) =>
                    /\ Has(p, "quarantine")
                    /\ IF loc[p] = "missing" THEN result[p] = QuarantineFailed
                       ELSE Quarantined(p, "PathValidationError")
                                \/ QuarantineFailedFor(p)

ValidationFirstWitness ==
    /\ Finished(Top) /\ FailedValidation(Top)
    /\ files[Top].kind = "file"
    /\ Quarantined(Top, "PathValidationError")

\* C4 as stated: an existing file that fails validation is always moved
\* into the quarantine directory, with a success result.
ValidationFailureAlwaysQuarantined ==
    \A p \in Paths :
        (Finished(p) /\ FailedValidation(p) /\ files[p].kind = "file") =>
            (result[p].success /\ loc[p] = "quarantine")

\* C5: a path is accepted iff its string holds no ".." and no "~", resolving
\* and inspecting it raises nothing, it resolves to an existing regular file
\* and the resolved path lies under an allowed root; otherwise the reason is
\* that of the first failing check in the order traversal marker, exception
\* while resolving or inspecting ("Path validation failed"), file missing,
\* not a regular file, outside the allowed roots.
ValidationReasons ==
    \A p \in Paths : hist[p].reason # "none" =>
        LET f == files[p]
            v == hist[p].reason
        IN  /\ v = "ok" <=> (f.marker = "none" /\ ~f.oserror
                                /\ f.kind = "file" /\ f.inroot)
            /\ f.marker # "none" => v = "traversal"
            /\ (f.marker = "none" /\ f.oserror) => v = "error"
            /\ (f.marker = "none" /\ ~f.oserror) =>
                  /\ f.kind = "missing" => v = "missing"
                  /\ f.kind = "dir" => v = "notfile"
                  /\ (f.kind = "file" /\ ~f.inroot) => v = "outside"

ValidationReasonsWitness ==
    /\ files[Top].marker = "~" /\ files[Top].kind = "missing"
    /\ hist[Top].reason = "traversal"

\* C5 as stated: the four checks alone decide, in their order.
FourReasonsOnly ==
    \A p \in Paths : hist[p].reason # "none" =>
        LET f == files[p]
        IN  hist[p].reason =
                IF f.marker # "none" THEN "traversal"
                ELSE IF f.kind = "missing" THEN "missing"
                ELSE IF f.kind = "dir" THEN "notfile"
                ELSE IF ~f.inroot THEN "outside"
                ELSE "ok"

\* C6: for an archive whose entries are all regular files, each pre-scan
\* raises iff the entry count is greater than max_files, or a declared size
\* is greater than max_file_size, or the cumulative declared size is greater
\* than max_total_size, or a name contains ".." or begins with "/"; a value
\* equal to its limit is accepted; when the pre-scan raises nothing has been
\* written, and when it does not, every entry has.
RECURSIVE SumSizes(_, _)
SumSizes(entries, i) ==
    IF i > Len(entries) THEN 0 ELSE entries[i].size + SumSizes(entries, i + 1)

AllRegular(entries) == \A i \in 1..Len(entries) : entries[i].kind = "file"

OverLimits(entries) ==
    \/ Len(entries) > MaxFiles
    \/ \E i \in 1..Len(entries) : entries[i].size > MaxFileSize
    \/ SumSizes(entries, 1) > MaxTotalSize
    \/ \E i \in 1..Len(entries) :
          HasDotDot(entries[i].name) \/ StartsWithSlash(entries[i].name)

PrescanAsStated(x) ==
    x.done =>
        /\ x.raised # "none" <=> OverLimits(scan.entries)
        /\ x.written = IF x.raised # "none" THEN <<>> ELSE scan.entries

PrescanLimits ==
    AllRegular(scan.entries) =>
        (PrescanAsStated(scan.zip) /\ PrescanAsStated(scan.tar))

PrescanLimitsWitness ==
    /\ scan.zip.done /\ scan.tar.done
    /\ AllRegular(scan.entries)
    /\ Len(scan.entries) = MaxFiles
    /\ \E i \in 1..Len(scan.entries) : scan.entries[i].size = MaxFileSize
    /\ SumSizes(scan.entries, 1) = MaxTotalSize
    /\ scan.zip.raised = "none" /\ scan.tar.raised = "none"
    /\ scan.zip.written = scan.entries /\ scan.tar.written = scan.entries

\* C7: when ArchiveBombError is raised in _process_archive, by the pre-scan
\* or by the walk, the call goes to the quarantine step with the archive and
\* threat name ArchiveBomb, the archive is never organized, and no extracted
\* member is processed, moved into the destination tree or quarantined; the
\* archive is moved into the quarantine directory and the result is success
\* with final_path in quarantine unless the move or the writing of the audit
\* record raises, and then the result is "Quarantine failed".
BombRaised(p) == hist[p].bomb # "none"

Children(p) == {q \in Paths : IsChild(q, p)}

ArchiveBombQuarantined ==
    \A p \in Paths : BombRaised(p) =>
        /\ ~Has(p, "organize") /\ loc[p] # "dest"
        /\ \A q \in Children(p) :
              trace[q] = <<>> /\ loc[q] \notin {"dest", "quarantine"}
        /\ Has(p, "quarantine") => hist[p].threat = "ArchiveBomb"
        /\ OnStack(p) =>
              /\ stack[Len(p) + 1].pc = "quarantine"
              /\ stack[Len(p) + 1].scan_result = ArchiveBomb
        /\ Finished(p) =>
              /\ Has(p, "quarantine")
              /\ Quarantined(p, "ArchiveBomb") \/ QuarantineFailedFor(p)

ArchiveBombQuarantinedWitness ==
    /\ Finished(Top) /\ hist[Top].bomb = "walk"
    /\ Quarantined(Top, "ArchiveBomb")
    /\ Children(Top) # {}
    /\ \A q \in Children(Top) : loc[q] = "removed"

\* C7 as stated: after an ArchiveBombError the archive is always in the
\* quarantine directory, with a success result.
ArchiveBombAlwaysQuarantined ==
    \A p \in Paths : (BombRaised(p) /\ Finished(p)) =>
        /\ result[p].success /\ result[p].final_path = "quarantine"
        /\ loc[p] = "quarantine"

\* C8: the whole extracted tree is walked before any extracted file is
\* handed to process_file; the walk rejects the archive as an archive bomb
\* iff a directory lies deeper than max_depth or the recomputed file count,
\* a file size or the cumulative size is over its limit, so a directory at
\* depth exactly max_depth is accepted; after a rejection no extracted
\* member has been processed.
RECURSIVE TreeSize(_, _)
TreeSize(tree, i) ==
    IF i > Len(tree) THEN 0
    ELSE (IF tree[i].kind = "dir" THEN 0 ELSE tree[i].size)
            + TreeSize(tree, i + 1)

TreeFiles(tree) == {j \in 1..Len(tree) : tree[j].kind # "dir"}

TreeOverLimits(tree) ==
    \/ \E j \in 1..Len(tree) : NodeDepth(tree[j]) > MaxDepth
    \/ Cardinality(TreeFiles(tree)) > MaxFiles
    \/ \E j \in TreeFiles(tree) : tree[j].size > MaxFileSize
    \/ TreeSize(tree, 1) > MaxTotalSize

\* the frame still holds the tree its walk has judged
JustWalked(f) == f.walk # "none" /\ (f.pc = "quarantine" \/ f.idx = 1)

WalkBeforeMembers ==
    /\ \A d \in 1..Depth : JustWalked(stack[d]) =>
          /\ stack[d].walk # "ok" <=> TreeOverLimits(stack[d].tree)
          /\ stack[d].walk # "ok" =>
                (stack[d].pc = "quarantine" /\ stack[d].scan_result = ArchiveBomb)
    /\ \A p \in Paths :
          /\ hist[p].bomb = "walk" =>
                \A q \in Children(p) : trace[q] = <<>> /\ ~OnStack(q)
          /\ \A q \in Children(p) : (trace[q] # <<>> \/ OnStack(q)) =>
                (Has(p, "walk") /\ hist[p].bomb = "none")

WalkBeforeMembersWitness ==
    /\ Running /\ Cur.walk = "ok" /\ Cur.pc = "members" /\ Cur.idx = 1
    /\ \E j \in 1..Len(Cur.tree) :
          Cur.tree[j].kind = "dir" /\ NodeDepth(Cur.tree[j]) = MaxDepth

\* C9: an extracted entry whose resolved path lies outside the extraction
\* root is never handed to process_file: it is skipped and stays where it
\* was extracted, and the other entries of the archive are still processed.
ResolvesOutside(q) == files[q].link

OutsideEntrySkipped ==
    \A p \in Paths :
        /\ \A q \in Children(p) : ResolvesOutside(q) =>
              /\ trace[q] = <<>> /\ ~OnStack(q) /\ ~Finished(q)
              /\ loc[q] \in {"orig", "removed"}
        /\ (Finished(p) /\ Has(p, "walk") /\ ~BombRaised(p)) =>
              \A q \in Children(p) : ~ResolvesOutside(q) => Finished(q)

OutsideEntrySkippedWitness ==
    /\ Finished(Top)
    /\ \E q \in Children(Top) : ResolvesOutside(q) /\ trace[q] = <<>>
    /\ \E q \in Children(Top) : ~ResolvesOutside(q) /\ Finished(q)

\* C10: the ZIP pre-scan and the TAR pre-scan give the same verdict on every
\* entry list, whatever the kinds of its entries.
SamePrescanVerdict ==
    (scan.zip.done /\ scan.tar.done) =>
        (scan.zip.raised = "none" <=> scan.tar.raised = "none")

\* C11: the archive-limit verdict is a function of the archive and of the
\* limits alone: whatever fail_closed and enable_security_scan are, an
\* archive that reaches the archive stage is rejected by the pre-scan iff its
\* entry list is over a limit or holds a traversal name, and by the walk iff
\* its extracted tree is over a limit, so two runs that differ only in those
\* flags agree; a rejected archive is handed to the quarantine step with
\* threat name ArchiveBomb in both, and is moved into the quarantine
\* directory unless the move or the writing of the audit record raises.
CountedSize(format, e) ==
    IF format = "tar" /\ e.kind # "file" THEN 0 ELSE e.size

RECURSIVE SumCounted(_, _, _)
SumCounted(format, entries, i) ==
    IF i > Len(entries) THEN 0
    ELSE CountedSize(format, entries[i]) + SumCounted(format, entries, i + 1)

EntriesOverLimits(format, entries) ==
    \/ Len(entries) > MaxFiles
    \/ \E i \in 1..Len(entries) :
          \/ HasDotDot(entries[i].name) \/ StartsWithSlash(entries[i].name)
          \/ CountedSize(format, entries[i]) > MaxFileSize
    \/ SumCounted(format, entries, 1) > MaxTotalSize

\* the frame still holds the archive it has judged
HoldsArchive(f) ==
    /\ f.prescan # "none"
    /\ f.pc \in {"quarantine", "walk"} \/ (f.pc = "members" /\ f.idx = 1)

Rejected(f) == f.prescan \notin {"none", "ok"} \/ f.walk \notin {"none", "ok"}

ArchiveVerdictIgnoresPolicy ==
    /\ \A d \in 1..Depth : HoldsArchive(stack[d]) =>
          LET f == stack[d]
          IN  /\ f.prescan # "ok" <=> EntriesOverLimits(f.format, f.entries)
              /\ f.walk # "none" =>
                    (f.walk # "ok" <=> TreeOverLimits(f.tree))
              /\ Rejected(f) =>
                    (f.pc = "quarantine" /\ f.scan_result = ArchiveBomb)
              /\ Rejected(f) <=> BombRaised(f.path)
    /\ \A p \in Paths : (BombRaised(p) /\ Finished(p)) =>
          /\ Has(p, "quarantine") /\ hist[p].threat = "ArchiveBomb"
          /\ Quarantined(p, "ArchiveBomb") \/ QuarantineFailedFor(p)

ArchiveVerdictIgnoresPolicyWitness ==
    /\ ~config.fail_closed /\ config.enable_security_scan
    /\ Finished(Top) /\ hist[Top].bomb = "prescan"
    /\ Quarantined(Top, "ArchiveBomb")

\* C11 as stated: an over-limit archive is in the quarantine directory at
\* the end of every run.
OverLimitAlwaysInQuarantine ==
    \A p \in Paths : (BombRaised(p) /\ Finished(p)) =>
        Quarantined(p, "ArchiveBomb")

\* C12: every process_file call that ends has returned a ProcessingResult,
\* whatever failed in it (validation, stability, scan, quarantine move,
\* classification, extraction, OCR, organize and its fallback): a success
\* means the file was placed in the destination tree or quarantined, and
\* every other end is a result with success false and a non-empty error.
Started(p) == trace[p] # <<>>

EveryCallReturnsAResult ==
    \A p \in Paths :
        /\ Started(p) => (OnStack(p) \/ Finished(p))
        /\ Finished(p) =>
              /\ ~OnStack(p)
              /\ result[p].success \in BOOLEAN
              /\ result[p].success =>
                    /\ result[p].error = ""
                    /\ \/ result[p].final_path = "dest" /\ loc[p] = "dest"
                       \/ Quarantined(p, hist[p].threat)
              /\ ~result[p].success =>
                    /\ result[p].error # ""
                    /\ result[p].final_path = "none"
                    /\ loc[p] # "dest"

EveryCallReturnsAResultWitness ==
    /\ Finished(Top) /\ Has(Top, "ocr") /\ Has(Top, "organize")
    /\ result[Top] = ProcessingFailed
    /\ loc[Top] = "orig"

\* C13: a file is organized into a category destination only after a
\* security scan of that file has completed, and an archive is extracted
\* only after its path validation has passed.
StageOrder(p, first, later) ==
    \A i \in 1..Len(trace[p]) : trace[p][i] = later =>
        \E j \in 1..(i - 1) : trace[p][j] = first

OrganizedOnlyAfterScan ==
    \A p \in Paths :
        /\ StageOrder(p, "scan", "organize")
        /\ loc[p] = "dest" => Has(p, "scan")
        /\ StageOrder(p, "validate", "extract")
        /\ Has(p, "extract") => hist[p].reason = "ok"

\* C14: _quarantine_file returns failure only if the move of the file
\* fails: whenever the file has been moved into the quarantine directory the
\* result is success with final_path in quarantine.
QuarantineFailsOnlyWithMove ==
    \A p \in Paths : (Finished(p) /\ Has(p, "quarantine")) =>
        /\ loc[p] = "quarantine" =>
              (result[p].success /\ result[p].final_path = "quarantine")
        /\ ~result[p].success => loc[p] # "quarantine"

\* C15: two different files with the same base name get two different
\* quarantine paths, also within one clock second and from two workers at
\* once, and no quarantined file or audit record is overwritten: a file
\* whose quarantine was reported as a success is still in the quarantine
\* directory, with its own audit record.
QuarantineNamesDistinct ==
    /\ \A v \in Workers, w \in Workers :
          (v # w /\ workers[v].moved /\ workers[w].moved) =>
              workers[v].path # workers[w].path
    /\ \A w \in Workers : workers[w].result.success =>
          /\ workers[w].path \in DOMAIN dirs.quarantine
          /\ dirs.quarantine[workers[w].path] = workers[w].file
          /\ workers[w].path \in DOMAIN dirs.logs
          /\ dirs.logs[workers[w].path].original_path = workers[w].file

\* C16: every file that _quarantine_file reports as quarantined has its
\* audit record next to it: the record was written after the file was
\* moved, and it names the original path of that file and the threat of the
\* scan result that caused its quarantine.
AuditRecordOfEveryQuarantined ==
    \A w \in Workers : workers[w].result.success =>
        /\ workers[w].moved
        /\ workers[w].path \in DOMAIN dirs.logs
        /\ dirs.logs[workers[w].path] =
               [original_path |-> workers[w].file,
                threat_name |-> workers[w].threat]

\* worker w's file was moved into the destination tree
Placed(w) == workers[w].at # Source

\* the path worker w moved its file to still holds that file
Intact(w) ==
    /\ workers[w].at \in DOMAIN dirs.dest
    /\ dirs.dest[workers[w].at] = workers[w].file

\* the files the destination tree held at the start are as they were
OldIntact == \A path \in dirs.old : dirs.dest[path] = OldFile

\* no two workers were inside _organize_file at the same time
OneAfterAnother == \A w \in Workers : ~workers[w].raced

\* name_k.ext, or name_k for a name without extension
Disambiguated(name, k) ==
    IF LastDot(name) = 0 THEN name \o <<"_", Digits[k]>>
    ELSE SubSeq(name, 1, LastDot(name) - 1) \o <<"_", Digits[k], ".">>
             \o SubSeq(name, LastDot(name) + 1, Len(name))

\* worker w's file is under its own name, or under name_k.ext for the
\* smallest k whose name was free
SmallestFreeName(w) ==
    LET dir == workers[w].at[1]
        name == workers[w].file.base
    IN  \/ workers[w].at[2] = name
        \/ \E k \in 1..3 :
              /\ workers[w].at[2] = Disambiguated(name, k)
              /\ <<dir, name>> \in DOMAIN dirs.dest
              /\ \A j \in 1..(k - 1) :
                    <<dir, Disambiguated(name, j)>> \in DOMAIN dirs.dest

\* C17: when files are organized one after another, a file whose name is
\* taken goes under name_k.ext (name_k without extension) for the smallest
\* free k >= 1, no file already there is overwritten or changed, and two
\* files with the same destination name end at two different paths, both
\* intact.
OrganizedOneAfterAnotherKeepsAll ==
    OneAfterAnother =>
        /\ OldIntact
        /\ \A w \in Workers : Placed(w) => Intact(w) /\ SmallestFreeName(w)
        /\ \A v \in Workers, w \in Workers :
              (v # w /\ Placed(v) /\ Placed(w)) =>
                  workers[v].at # workers[w].at

\* C18: the check for a free name and the move are two steps.  As long as
\* no worker takes the fallback, a file is lost only when two workers ran
\* side by side and moved onto the same final path, the later move
\* replacing the earlier file; files organized one after another, and the
\* files already there, are kept.
LostOnlyToConcurrentMove ==
    (\A w \in Workers : ~workers[w].fallback) =>
        /\ OldIntact
        /\ \A w \in Workers : Placed(w) =>
              /\ SmallestFreeName(w)
              /\ ~Intact(w) =>
                    /\ workers[w].raced
                    /\ \E v \in Workers \ {w} :
                          /\ workers[v].raced
                          /\ workers[v].at = workers[w].at
                          /\ Intact(v)

\* two workers that computed the same destination name have both moved
\* onto the same final path, and the file of one of them is gone
LostOnlyToConcurrentMoveWitness ==
    \E v \in Workers, w \in Workers :
        /\ v # w
        /\ workers[v].pc = "done" /\ workers[w].pc = "done"
        /\ ~workers[v].fallback /\ ~workers[w].fallback
        /\ workers[v].result.success /\ workers[w].result.success
        /\ workers[v].file.base = workers[w].file.base
        /\ workers[v].at = workers[w].at
        /\ ~Intact(v)

\* the directory of a category in the flat placement
CategoryDirectory(category) ==
    IF category \in DOMAIN ConfigCategories THEN ConfigCategories[category]
    ELSE category

Polls == stab.polls

\* poll i saw another size or time than the poll before it
SawChange(i) == i > 1 /\ Polls[i][2] # Polls[i - 1][2]

\* the polls from i on saw no change and cover the configured duration
QuietWindowFrom(i) ==
    /\ \A j \in (i + 1)..Len(Polls) : ~SawChange(j)
    /\ Polls[Len(Polls)][1] - Polls[i][1] >= stab.stability_check_duration

\* the time of the last poll that saw a change, or of the first stat()
WindowStart ==
    LET i == CHOOSE i \in 1..Len(Polls) :
                 /\ i = 1 \/ SawChange(i)
                 /\ \A j \in (i + 1)..Len(Polls) : ~SawChange(j)
    IN  Polls[i][1]

\* C20, as stated: _check_file_stability returns true only after a run of
\* polls that saw no change and covers the configured duration.
StableOnlyAfterQuietPolls ==
    stab.returned = "true" => \E i \in 1..Len(Polls) : QuietWindowFrom(i)

\* C20, amended: with the stability check enabled, the file goes on to the
\* scan only after a run of polls that saw no change and covers the
\* configured duration; every poll that sees a change restarts the window
\* at the time of that poll.
StableOnlyAfterQuietWindow ==
    stab.check_file_stability =>
        /\ stab.returned = "true" =>
              \E i \in 1..Len(Polls) : QuietWindowFrom(i)
        /\ stab.pc \in {"loop", "sleep", "exists", "poll"} =>
              stab.start_time = WindowStart

\* the check returned true after a poll had seen a change and the window
\* had started again
StableOnlyAfterQuietWindowWitness ==
    /\ stab.check_file_stability
    /\ stab.returned = "true"
    /\ stab.stability_check_duration = MaxDuration
    /\ \E i \in 2..Len(Polls) : SawChange(i) /\ QuietWindowFrom(i)

\* the polls a quiet window needs: duration / interval, rounded up
PollsPerWindow ==
    (stab.stability_check_duration + stab.stability_check_interval - 1)
        \div stab.stability_check_interval

\* the index of the last poll that saw a change, or of the first stat()
WindowIndex ==
    CHOOSE i \in 1..Len(Polls) :
        /\ i = 1 \/ SawChange(i)
        /\ \A j \in (i + 1)..Len(Polls) : ~SawChange(j)

\* C21, as stated: every call returns after a number of polls fixed by the
\* duration and the interval, also when the file changes at every poll.
PollsBoundedByDuration ==
    (stab.check_file_stability /\ Len(Polls) > 0) =>
        Len(Polls) - 1 <= PollsPerWindow

\* C21, amended: the wait is bounded from the last observed change on: after
\* it the call makes at most duration / interval (rounded up) polls; every
\* poll that sees a change starts the count again.
QuietPollsBounded ==
    (stab.check_file_stability /\ Len(Polls) > 0) =>
        Len(Polls) - WindowIndex <= PollsPerWindow

\* the file changed at two polls in a row, and the call has made more polls
\* than one window holds
QuietPollsBoundedWitness ==
    /\ stab.check_file_stability
    /\ \E i \in 2..(Len(Polls) - 1) : SawChange(i) /\ SawChange(i + 1)
    /\ Len(Polls) - 1 > PollsPerWindow
    /\ stab.returned = "true"

\* the file went away before a test of the check could miss it: before the
\* first sample, between an exists() and the stat() after it, or between two
\* polls
DisappearedInCheck ==
    /\ stab.check_file_stability
    /\ stab.file = Gone
    /\ \/ stab.gone_at \in {"enter", "stat", "sleep", "exists", "poll"}
       \/ stab.gone_at = "loop" /\ stab.gone_open

\* C22: a file that disappears during the stability check makes
\* _check_file_stability return False, never raise; process_file then
\* returns the failure 'File not stable for processing', does not go on to
\* the scan, and nothing is moved, created or deleted.
DisappearanceReportedFalse ==
    DisappearedInCheck =>
        /\ stab.pc = "done" => stab.returned = "false"
        /\ stab.stage # "scan"
        /\ stab.stage = "returned" =>
              /\ stab.result = NotStable
              /\ stab.result.error = "File not stable for processing"
        /\ dirs = NoDirs

\* the file went away between two polls, and process_file has returned
DisappearanceReportedFalseWitness ==
    /\ DisappearedInCheck
    /\ stab.gone_at \in {"sleep", "loop"}
    /\ Len(Polls) >= 2
    /\ stab.stage = "returned"

\* C23: with the stability check disabled the file counts as stable at once:
\* no sample is taken, no time passes, and process_file does not return
\* 'not stable' but goes on to the security scan.
DisabledCheckIsStable ==
    ~stab.check_file_stability =>
        /\ Polls = <<>>
        /\ clock = 0
        /\ stab.pc \in {"enter", "done"}
        /\ stab.pc = "done" => stab.returned = "true"
        /\ stab.stage # "returned" /\ stab.result = NoResult

\* process_file has gone on to the scan with the check disabled
DisabledCheckIsStableWitness ==
    /\ ~stab.check_file_stability
    /\ stab.stability_check_duration = MaxDuration
    /\ stab.stage = "scan"

\* how often the call on p ran a stage
Count(p, stage) == Cardinality({i \in 1..Len(trace[p]) : trace[p][i] = stage})

\* p was extracted and its tree passed the walk
ValidArchive(p) == Has(p, "walk") /\ ~BombRaised(p)

\* the extracted file q passes the extraction-root check
InExtractionRoot(q) == ValidateExtractedFilePath(files[q]) = "ok"

\* q comes before r in the walk of the archive both were extracted from
Before(q, r) == q[Len(q)] < r[Len(r)]

\* every member of p that passes the root check was processed, once
MembersProcessed(p) ==
    \A q \in Children(p) : InExtractionRoot(q) =>
        Finished(q) /\ ~OnStack(q) /\ Count(q, "validate") = 1

\* members are processed one at a time, in walk order, each with all that
\* was extracted from it, and before the archive itself is organized
DepthFirst(p) ==
    \A q \in Children(p) :
        /\ Count(q, "validate") <= 1
        /\ (Started(q) /\ ~Finished(q)) =>
              /\ OnStack(q) /\ OnStack(p)
              /\ ~Has(p, "organize") /\ ~Finished(p)
        /\ Started(q) =>
              \A r \in Children(p) : (Before(r, q) /\ InExtractionRoot(r)) =>
                  /\ Finished(r) /\ ~OnStack(r)
                  /\ \A s \in Children(r) : ~OnStack(s)
                  /\ ValidArchive(r) => MembersProcessed(r)

\* C24, as stated: on return a valid archive is no longer at its original
\* path.
ArchiveGoneOnReturn ==
    \A p \in Paths : (ValidArchive(p) /\ Finished(p)) => loc[p] # "orig"

\* C24, amended: every extracted file of a valid archive that passes the
\* root check is handed to process_file exactly once, one at a time and
\* depth-first; the archive is organized only after all of them have
\* returned; on return it is at its category destination, unless
\* _organize_file failed, and then the result is 'Archive processing failed'
\* and the archive is where it was.
MembersBeforeArchive ==
    \A p \in Paths :
        /\ DepthFirst(p)
        /\ (ValidArchive(p) /\ Has(p, "organize")) => MembersProcessed(p)
        /\ (ValidArchive(p) /\ Finished(p)) =>
              /\ Has(p, "organize") /\ MembersProcessed(p)
              /\ IF result[p].success
                   THEN loc[p] = "dest" /\ result[p].final_path = "dest"
                   ELSE /\ result[p].error = "Archive processing failed"
                        /\ LeftInPlace(p)

\* the outer archive was organized after an archive found in it, the file
\* extracted from that one and the sibling after it had all been processed
MembersBeforeArchiveWitness ==
    /\ Finished(Top) /\ result[Top].success /\ ValidArchive(Top)
    /\ \E q \in Children(Top), r \in Children(Top) :
          /\ Before(q, r)
          /\ ValidArchive(q) /\ result[q].success
          /\ \E s \in Children(q) : Finished(s) /\ result[s].success
          /\ Finished(r) /\ result[r].success

\* the frame of an archive whose walk has passed and whose member loop has
\* not begun: it still holds the extracted tree
WalkedFrame(f) == f.pc = "members" /\ f.idx = 1 /\ f.walk = "ok"

\* the members of p whose process_file call returned a success
Succeeded(p) == {q \in Children(p) : Finished(q) /\ result[q].success}

\* list holds, in walk order, each member of p that succeeded with the
\* final path of its result
ListsFinalPaths(list, p) ==
    /\ Len(list) = Cardinality(Succeeded(p))
    /\ \A q \in Succeeded(p) : \E i \in 1..Len(list) : list[i].path = q
    /\ \A i \in 1..Len(list) :
          /\ list[i].path \in Succeeded(p)
          /\ list[i].final_path = result[list[i].path].final_path
          /\ loc[list[i].path] = list[i].final_path
          /\ \A j \in (i + 1)..Len(list) : Before(list[i].path, list[j].path)

\* a successful archive result with its metadata
ArchiveResult(p) ==
    Finished(p) /\ result[p].success /\ result[p].metadata.present

CountersKept ==
    /\ \A d \in 1..Depth :
          (stack[d].pc \in {"members", "wait"} /\ d <= Len(stack')) =>
              /\ stack'[d].file_count = stack[d].file_count
              /\ stack'[d].total_extracted_size =
                     stack[d].total_extracted_size
    /\ \A p \in Paths :
          (/\ ~Finished(p) /\ p \in DOMAIN result'
           /\ result'[p].success /\ result'[p].metadata.present) =>
              /\ result'[p].metadata.file_count = stack[Len(p) + 1].file_count
              /\ result'[p].metadata.total_extracted_size =
                     stack[Len(p) + 1].total_extracted_size

\* the counters of the walk and the list of the result
CountersOfWalk ==
    /\ \A d \in 1..Depth :
          /\ WalkedFrame(stack[d]) =>
                /\ stack[d].file_count =
                       Cardinality(TreeFiles(stack[d].tree))
                /\ stack[d].total_extracted_size = TreeSize(stack[d].tree, 1)
          /\ stack[d].pc \in {"members", "wait"} =>
                /\ stack[d].file_count =
                       Cardinality(Children(stack[d].path))
                /\ stack[d].pc = "members" =>
                       ListsFinalPaths(stack[d].extracted_files,
                                       stack[d].path)
    /\ \A p \in Paths : ArchiveResult(p) =>
          /\ result[p].metadata.file_count = Cardinality(Children(p))
          /\ ListsFinalPaths(result[p].metadata.extracted_files, p)
          /\ \A i \in 1..Len(result[p].metadata.extracted_files) :
                result[p].metadata.extracted_files[i].final_path
                    \in {"dest", "quarantine"}

CopiesOf(name) ==
    {path \in DOMAIN dirs.dest : dirs.dest[path].base = name}

\* C26: a path submitted twice, the calls one after the other or side by
\* side, is placed as if it had been submitted once: the file and, for an
\* archive, its member are in the destination tree at most once, and at most
\* one call returns a success.
ResubmittedPlacedOnce ==
    /\ Cardinality(CopiesOf(SubmittedName)) <= 1
    /\ Cardinality(CopiesOf(MemberName)) <= 1
    /\ Cardinality({w \in Workers : workers[w].result.success}) <= 1


\* the scanner ended with exit code 1: it detected something
ExplicitDetection(p) == hist[p].outcome \in {"exit1_found", "exit1_nomatch"}

\* C27 as stated: the result of every scan has a threat name exactly when
\* it is not clean and comes from a detection by the scanner; a result that stands for
\* a scanner that is missing, failed or timed out has no threat name, and a
\* clean result has none.
ThreatNameOnlyOnDetection ==
    \A p \in Paths : Has(p, "scan") =>
        LET r == hist[p].scan_result
        IN  r.threat_name # "None" <=> (~r.is_clean /\ ExplicitDetection(p))


\* worker w has organized a text file: the classifier's category for it is
\* "document", and process_file passes no OCR metadata for that category
TextFileDone(w) ==
    /\ workers[w].pc = "done"
    /\ workers[w].category = "document"
    /\ ~workers[w].ocr_metadata

\* the directory configured for text files, and the file's own name in it
TextDestination(w) == <<(<<ConfigCategories.documents>>), workers[w].file.base>>

\* the name is free: no other file has been placed under it
NameFree(w) ==
    \A v \in Workers \ {w} : workers[v].at # TextDestination(w)

\* C27: the result of every scan has a threat name exactly when it is not
\* clean: the reported name or "Unknown threat" after a detection, and the
\* name of the fallback (AVUnavailable, ScanError, ScanTimeout,
\* ScanException) when the scanner gave no verdict under fail-closed; a
\* clean result has none.
ThreatNameIffNotClean ==
    \A p \in Paths : Has(p, "scan") =>
        LET r == hist[p].scan_result
        IN  /\ r.threat_name # "None" <=> ~r.is_clean
            /\ ExplicitDetection(p) =>
                  r.threat_name \in {"Found", "Unknown threat"}
            /\ (~r.is_clean /\ ~ExplicitDetection(p)) =>
                  r.threat_name \in {"AVUnavailable", "ScanError",
                                     "ScanTimeout", "ScanException"}

\* the scanner is missing, the policy is fail-closed, and the scan of the
\* top-level file is not clean under the name AVUnavailable
ThreatNameIffNotCleanWitness ==
    /\ ~config.clamav_available /\ config.fail_closed
    /\ Has(Top, "scan")
    /\ hist[Top].scan_result = SecurityScanResult(FALSE, "AVUnavailable")

Reported ==
    IF Len(scan.stdout) >= 4 /\ scan.stdout[Len(scan.stdout) - 1] = Found
      THEN <<scan.stdout[Len(scan.stdout) - 2]>>
      ELSE <<>>

\* C29: a scan that ends with exit code 1 is never clean; when its output
\* has "<name> FOUND" the threat name is <name>, the signature the scanner
\* reported, and when the output has no such pattern the threat name is
\* "Unknown threat".
ThreatNameIsReported ==
    scan.pc = "done" =>
        /\ ~scan.scan_result.is_clean
        /\ scan.scan_result.threat_name =
              (IF MatchesAt(scan.stdout \o scan.stderr) = {} THEN UnknownThreat
               ELSE Reported)


\* the frames whose next step is _organize_file
AboutToOrganize == {d \in 1..Depth : stack[d].pc = "organize"}

\* the stage the call of frame d went through last
LastStage(d) == trace[stack[d].path][Len(trace[stack[d].path])]

\* C30 as stated: with OCR enabled a file classified as an image or as a
\* document type, the plain documents included, has gone through the
\* metadata extraction when it is organized.
DocumentsGoThroughOcr ==
    \A d \in AboutToOrganize :
        config.enable_ocr /\ stack[d].category \in {"image", "pdf", "document"}
            => Has(stack[d].path, "ocr")

\* C30: with OCR enabled a file classified as image or pdf goes through the
\* metadata extraction, once, as the last step before it is organized; a
\* file of any other category, "document" included, and every file when OCR
\* is disabled, is organized without it.
OcrBeforeOrganize ==
    /\ \A d \in AboutToOrganize :
          IF config.enable_ocr /\ stack[d].category \in {"image", "pdf"}
            THEN /\ LastStage(d) = "ocr"
                 /\ Count(stack[d].path, "ocr") = 1
            ELSE ~Has(stack[d].path, "ocr")
    /\ \A p \in Paths : Has(p, "organize") =>
          /\ trace[p][Len(trace[p])] = "organize"
          /\ Count(p, "organize") = 1
          /\ Has(p, "ocr") => trace[p][Len(trace[p]) - 1] = "ocr"

\* with OCR enabled an image has been through the metadata extraction and
\* is about to be organized
OcrBeforeOrganizeWitness ==
    /\ config.enable_ocr
    /\ \E d \in AboutToOrganize :
          /\ stack[d].category = "image"
          /\ LastStage(d) = "ocr"


\* the call came from process_file: step 6 ran for an image or a PDF
FromPipeline == workers.category \in {"image", "pdf"}

\* _extract_ocr_metadata had nothing to read: no OCR engine, an extension it
\* does not open, no PDF converter, or no page that gave text
NothingRecognized ==
    \/ ~workers.tesseract
    \/ workers.ext = "gif"
    \/ workers.ext = "pdf" /\ ~workers.pdf2image
    \/ workers.all_text = <<>>

\* the category directory alone, and the file's name in it
PlainDestination == <<(<<(<<BaseDest(workers.category)>>)>>), OrganizedName>>

HasDate == workers.ocr_metadata.date_detected # NoDate

HasContext == workers.ocr_metadata.business_context # <<>>

HasSender == workers.ocr_metadata.sender # <<>>

\* 1 if the condition holds, else 0
One(b) == IF b THEN 1 ELSE 0

\* segment is sender cut to 50 characters with every unsafe character
\* replaced by "_" and every other character kept
Sanitized(segment, sender) ==
    /\ Len(segment) <= 50
    /\ Len(segment) = (IF Len(sender) <= 50 THEN Len(sender) ELSE 50)
    /\ \A i \in 1..Len(segment) :
          /\ segment[i] \notin {"<", ">", ":", "\"", "/", "\\", "|", "?", "*"}
          /\ segment[i] = (IF sender[i] \in {"<", ">", ":", "\"", "/", "\\",
                                             "|", "?", "*"}
                             THEN "_" ELSE sender[i])

\* C32: the directory _organize_file builds is the category base directory,
\* then the YYYY/MM segment exactly when a date was detected, then the
\* business context exactly when one was detected, then the sanitized
\* sender (at most 50 characters, unsafe characters replaced by "_")
\* exactly when a sender was detected, in this order; with no metadata it is
\* the base directory alone.
DestinationComposed ==
    workers.pc = "done" =>
        LET d == workers.final_dest_dir
            m == workers.ocr_metadata
            date_at == 2
            context_at == 2 + One(HasDate)
            sender_at == 2 + One(HasDate) + One(HasContext)
        IN  /\ Len(d) = 1 + One(HasDate) + One(HasContext) + One(HasSender)
            /\ d[1] = <<BaseDest(workers.category)>>
            /\ HasDate =>
                  d[date_at] = <<YearStr[m.date_detected.year], "/",
                                 MonthStr[m.date_detected.month]>>
            /\ HasContext => d[context_at] = m.business_context
            /\ HasSender => Sanitized(d[sender_at], m.sender)
            /\ ~m.present => d = <<(<<BaseDest(workers.category)>>)>>

\* a call with a date, a context and a sender of 51 unsafe characters has
\* built documents/2024/03/invoice/<50 times "_">
DestinationComposedWitness ==
    /\ workers.pc = "done"
    /\ workers.ocr_metadata.sender = Rep("/", 51)
    /\ workers.final_dest_dir =
          <<(<<"documents">>), <<"2024", "/", "03">>, <<"invoice">>,
            Rep("_", 50)>>


\* the text has, for some date pattern, a first match that parses
ParseableMatch(text) ==
    \E k \in 1..4 :
        /\ Search("date", k, text) # <<>>
        /\ ParseFrom(DateStr(Search("date", k, text)[1]), 1) # NoDate

\* C33: the date patterns are tried in order and the first pattern whose
\* match also parses is accepted: a date is detected whenever some pattern
\* matches the text with a match that parses, whatever the earlier patterns
\* matched.
DateOfFirstParseableMatch ==
    workers.pc \in {"organize", "done"} /\ FromPipeline
    /\ workers.ocr_metadata.present
        => (ParseableMatch(workers.all_text)
                <=> workers.ocr_metadata.date_detected # NoDate)


\* the stage of p that followed its stability check, "none" if the call
\* ended there or has not gone on yet
AfterStabilityStage(p) ==
    LET at == {i \in 1..Len(trace[p]) : trace[p][i] = "stability"}
    IN  IF at = {} THEN "none"
        ELSE LET i == CHOOSE i \in at : TRUE
             IN  IF i < Len(trace[p]) THEN trace[p][i + 1] ELSE "none"

\* C34: the scan stage of process_file runs if and only if
\* enable_security_scan is true, or the scanner is unavailable and
\* fail_closed is true; in every other configuration the file goes from the
\* stability check straight to the classification, without a scan.
ScanRunsByConfiguration ==
    \A p \in Paths :
        /\ AfterStabilityStage(p) # "none" =>
              AfterStabilityStage(p) =
                  (IF \/ config.enable_security_scan
                      \/ ~config.clamav_available /\ config.fail_closed
                     THEN "scan" ELSE "classify")
        /\ Has(p, "scan") =>
              /\ Count(p, "scan") = 1
              /\ \/ config.enable_security_scan
                 \/ ~config.clamav_available /\ config.fail_closed

\* scanning disabled, scanner available, fail-closed: the file was
\* classified right after the stability check
ScanRunsByConfigurationWitness ==
    /\ ~config.enable_security_scan
    /\ config.clamav_available /\ config.fail_closed
    /\ AfterStabilityStage(Top) = "classify"
    /\ ~Has(Top, "scan")


\* C35: no step overwrites or removes a file of the destination tree: when
\* the calls run one after another, every file that was there before and
\* every file a call has placed is still at its path with its content, also
\* after a fallback placement.
NothingOverwritten ==
    OneAfterAnother =>
        /\ \A path \in dirs.old :
              path \in DOMAIN dirs.dest /\ dirs.dest[path] = OldFile
        /\ \A w \in Workers : Placed(w) =>
              workers[w].at \in DOMAIN dirs.dest
              /\ dirs.dest[workers[w].at] = workers[w].file


\* the archive p was extracted, passed the walk, and its call has returned
ArchiveDone(p) == ValidArchive(p) /\ Finished(p)

\* C36 as stated: whatever its members' outcomes, the archive itself is
\* organized into the archive category with success.
ArchiveAlwaysSucceeds ==
    \A p \in Paths : ArchiveDone(p) =>
        result[p].success /\ loc[p] = "dest"

\* C36: the outcome of a member does not change what happens to the others
\* or to the archive: every member inside the extraction root is processed
\* whatever the members before it returned, a member outside it is skipped,
\* the archive is then organized, its result depending on its own move only
\* (success, or "Archive processing failed"), and extracted_files names
\* exactly the members whose result was a success.
MemberOutcomeIgnored ==
    \A p \in Paths : ArchiveDone(p) =>
        /\ \A q \in Children(p) :
              IF InExtractionRoot(q)
                THEN Finished(q) /\ Count(q, "validate") = 1
                ELSE trace[q] = <<>> /\ ~Finished(q)
        /\ Count(p, "organize") = 1
        /\ result[p].success <=> loc[p] = "dest"
        /\ ~result[p].success =>
              result[p].error = "Archive processing failed"
        /\ result[p].success =>
              {result[p].metadata.extracted_files[i].path :
                  i \in 1..Len(result[p].metadata.extracted_files)}
                  = Succeeded(p)

\* an archive was organized with success after its first member had failed
\* and its second member had succeeded
MemberOutcomeIgnoredWitness ==
    /\ ArchiveDone(Top) /\ result[Top].success
    /\ \E q \in Children(Top), r \in Children(Top) :
          /\ Before(q, r)
          /\ Finished(q) /\ ~result[q].success
          /\ Finished(r) /\ result[r].success
          /\ Len(result[Top].metadata.extracted_files) = 1


\* the name ends, whatever the case of its letters, in one of .zip, .jar,
\* .tar, .tar.gz, .tgz, .tar.bz2
SupportedName ==
    LET n == Len(workers.name)
        last == IF n >= 1 THEN Lower(workers.name[n]) ELSE ""
        before == IF n >= 2 THEN Lower(workers.name[n - 1]) ELSE ""
    IN  \/ last \in {".zip", ".jar", ".tar", ".tgz"}
        \/ before = ".tar" /\ last \in {".gz", ".bz2"}

\* C37 as stated: a file classified as archive whose name ends in none of
\* the supported suffixes gets the failed result "Unsupported archive
\* format" and stays at its original path.
UnsupportedAlwaysReported ==
    (workers.pc = "done" /\ ~SupportedName) =>
        workers.result = Unsupported /\ workers.at = Source

\* C37: a file classified as archive whose name ends in none of the
\* supported suffixes is never handed to an extraction function and stays
\* at its original path; its result is the failure "Unsupported archive
\* format", or "Archive processing failed" when the temporary directory
\* could not be created; the temporary directory is gone when the call
\* returns.  A name with a supported suffix, in any case, never gets
\* "Unsupported archive format".
UnsupportedFormatRejected ==
    /\ ~SupportedName =>
          /\ workers.pc # "extract"
          /\ workers.at = Source
          /\ workers.pc = "done" =>
                /\ workers.result \in {Unsupported, ArchiveFailed}
                /\ ~workers.temp_dir
    /\ SupportedName => workers.result # Unsupported
    /\ workers.pc = "extract" =>
          workers.format = (IF Lower(workers.name[Len(workers.name)])
                                  \in {".zip", ".jar"}
                              THEN "zip" ELSE "tar")

\* a file a.tar.xz, an archive for the classifier, was refused
UnsupportedFormatRejectedWitness ==
    /\ workers.pc = "done"
    /\ workers.name = <<".tar", ".xz">>
    /\ workers.result = Unsupported
    /\ workers.at = Source


\* the process_file calls working on an archive at this moment
ActiveArchives == {d \in 1..Depth : stack[d].category = "archive"}

DeepNode(tree) == \E j \in 1..Len(tree) : NodeDepth(tree[j]) > MaxDepth

StatRaised == stab.returned = "false" /\ stab.file # Gone

\* the check is between two polls
Waiting == stab.pc \in {"sleep", "exists", "poll"}

\* C39: a file that stays present and stops changing (in these runs it is
\* written to at most MaxWrites times) gets the answer true and process_file
\* goes on to the security scan, provided the polls keep being taken (the
\* calling thread keeps running and no stat() raises); and the check waits
\* only while the last change it saw, or its start, is less than the
\* duration old when it goes to sleep.
StableFileProceeds ==
    /\ [](stab.pc = "sleep" =>
            clock - stab.start_time < stab.stability_check_duration)
    /\ ([](stab.file # Gone /\ ~StatRaised) =>
            <>(stab.returned = "true" /\ stab.stage = "scan"))

\* the check saw the file change, waited on with the timer restarted, and
\* let the file through once it was left alone
StableFileProceedsWitness ==
    /\ stab.stage = "scan" /\ stab.returned = "true"
    /\ stab.file = MaxWrites
    /\ Len(stab.polls) >= 3
    /\ stab.start_time > 0
    /\ stab.polls[Len(stab.polls)][2] = stab.polls[Len(stab.polls) - 1][2]


\* C40 as stated: when _process_archive returns, whatever the outcome, its
\* temporary extraction directory and everything still inside it have been
\* removed, and during the call nothing was written outside that directory,
\* the destination tree and the quarantine directory.
TempRemovedNothingOutside ==
    /\ workers.pc = "done" => ~workers.temp_dir /\ workers.temp = {}
    /\ workers.outside = {}

====
